---- MODULE Spec2Model ----
(***************************************************************************)
(* Model of the wake-word front end of src/src/main.rs: the capture        *)
(* callback (data_fn + create_waveform_match), the error callback, the     *)
(* recognizer swap thread and the supervisory loop of main, at the         *)
(* granularity of their mutex acquisitions.                                *)
(*                                                                         *)
(* Text is a sequence of one-character strings.  Time is in milliseconds   *)
(* since the stream was started.                                           *)
(***************************************************************************)
EXTENDS Integers, Sequences, FiniteSets, TLC

\* ------------------------------------------------------------------ bounds
\* The clock advances TickMs at a time, at most MaxTicks times.
MaxTicks == 4
TickMs == 1000
\* At most MaxCalls decodes that return Running are counted in CALL_COUNT.
MaxCalls == 2

\* ------------------------------------------------------- program constants
GraceMs == 350
CommandTimeoutMs == 3000
CeilingMs == 86400000
ResetPeriod == 1000

\* -------------------------------------------------------------------- text
\* A text is a sequence of characters. A character is written as a string of
\* one character; a character no string of this module can hold is written
\* by its code point, as in "U+0253".
\* The characters char::to_lowercase changes, and what it changes them to:
\* Upper[i] becomes Lower[i] (the tables of Unicode 17). Listed is every
\* character a string of this module can hold; capital sigma is treated
\* apart.
Upper == <<
    "A","B","C","D","E","F","G","H","I","J","K","L","M","N","O","P","Q","R",
    "S","T","U","V","W","X","Y","Z","À","Á","Â","Ã","Ä","Å","Æ","Ç","È","É",
    "Ê","Ë","Ì","Í","Î","Ï","Ð","Ñ","Ò","Ó","Ô","Õ","Ö","Ø","Ù","Ú","Û","Ü",
    "Ý","Þ","Ɓ","Ƃ","Ƅ","Ɔ","Ƈ","Ɖ","Ɗ","Ƌ","Ǝ","Ə","Ɛ","Ƒ","Ɠ","Ɣ","Ɩ","Ɨ",
    "Ƙ","Ɯ","Ɲ","Ɵ","Ơ","Ƣ","Ƥ","Ʀ","Ƨ","Ʃ","Ƭ","Ʈ","Ư","Ʊ","Ʋ","Ƴ","Ƶ","Ʒ",
    "Ƹ","Ƽ","Ǆ","ǅ","Ǉ","ǈ","Ǌ","ǋ","Ǎ","Ǐ","Ǒ","Ǔ","Ǖ","Ǘ","Ǚ","Ǜ","Ǟ","Ǡ",
    "Ǣ","Ǥ","Ǧ","Ǩ","Ǫ","Ǭ","Ǯ","Ǳ","ǲ","Ǵ","Ƕ","Ƿ","Ǹ","Ǻ","Ǽ","Ǿ","Ά","Έ",
    "Ή","Ί","Ό","Ύ","Ώ","Α","Β","Γ","Δ","Ε","Ζ","Η","Θ","Ι","Κ","Λ","Μ","Ν",
    "Ξ","Ο","Π","Ρ","Τ","Υ","Φ","Χ","Ψ","Ω","Ϊ","Ϋ","Ϗ","Ϙ","Ϛ","Ϝ","Ϟ","Ϡ",
    "Ϣ","Ϥ","Ϧ","Ϩ","Ϫ","Ϭ","Ϯ","ϴ","Ϸ","Ϲ","Ϻ","Ͻ","Ͼ","Ͽ","Ҁ","Ҋ","Ҍ","Ҏ",
    "Ґ","Ғ","Ҕ","Җ","Ҙ","Қ","Ҝ","Ҟ","Ҡ","Ң","Ҥ","Ҧ","Ҩ","Ҫ","Ҭ","Ү","Ұ","Ҳ",
    "Ҵ","Ҷ","Ҹ","Һ","Ҽ","Ҿ","Ӏ","Ӂ","Ӄ","Ӆ","Ӈ","Ӊ","Ӌ","Ӎ","Ӑ","Ӓ","Ӕ","Ӗ",
    "Ә","Ӛ","Ӝ","Ӟ","Ӡ","Ӣ","Ӥ","Ӧ","Ө","Ӫ","Ӭ","Ӯ","Ӱ","Ӳ","Ӵ","Ӷ","Ӹ","Ӻ",
    "Ӽ","Ӿ","Ⴀ","Ⴁ","Ⴂ","Ⴃ","Ⴄ","Ⴅ","Ⴆ","Ⴇ","Ⴈ","Ⴉ","Ⴊ","Ⴋ","Ⴌ","Ⴍ","Ⴎ","Ⴏ",
    "Ⴐ","Ⴑ","Ⴒ","Ⴓ","Ⴔ","Ⴕ","Ⴖ","Ⴗ","Ⴘ","Ⴙ","Ⴚ","Ⴛ","Ⴜ","Ⴝ","Ⴞ","Ⴟ","Ⴠ","Ⴡ",
    "Ⴢ","Ⴣ","Ⴤ","Ⴥ","Ⴧ","Ⴭ","Ꭰ","Ꭱ","Ꭲ","Ꭳ","Ꭴ","Ꭵ","Ꭶ","Ꭷ","Ꭸ","Ꭹ","Ꭺ","Ꭻ",
    "Ꭼ","Ꭽ","Ꭾ","Ꭿ","Ꮀ","Ꮁ","Ꮂ","Ꮃ","Ꮄ","Ꮅ","Ꮆ","Ꮇ","Ꮈ","Ꮉ","Ꮊ","Ꮋ","Ꮌ","Ꮍ",
    "Ꮎ","Ꮏ","Ꮐ","Ꮑ","Ꮒ","Ꮓ","Ꮔ","Ꮕ","Ꮖ","Ꮗ","Ꮘ","Ꮙ","Ꮚ","Ꮛ","Ꮜ","Ꮝ","Ꮞ","Ꮟ",
    "Ꮠ","Ꮡ","Ꮢ","Ꮣ","Ꮤ","Ꮥ","Ꮦ","Ꮧ","Ꮨ","Ꮩ","Ꮪ","Ꮫ","Ꮬ","Ꮭ","Ꮮ","Ꮯ","Ꮰ","Ꮱ",
    "Ꮲ","Ꮳ","Ꮴ","Ꮵ","Ꮶ","Ꮷ","Ꮸ","Ꮹ","Ꮺ","Ꮻ","Ꮼ","Ꮽ","Ꮾ","Ꮿ","Ᏸ","Ᏹ","Ᏺ","Ᏻ",
    "Ᏼ","Ᏽ","Ᲊ","Ა","Ბ","Გ","Დ","Ე","Ვ","Ზ","Თ","Ი","Კ","Ლ","Მ","Ნ","Ო","Პ",
    "Ჟ","Რ","Ს","Ტ","Უ","Ფ","Ქ","Ღ","Ყ","Შ","Ჩ","Ც","Ძ","Წ","Ჭ","Ხ","Ჯ","Ჰ",
    "Ჱ","Ჲ","Ჳ","Ჴ","Ჵ","Ჶ","Ჷ","Ჸ","Ჹ","Ჺ","Ჽ","Ჾ","Ჿ","Ẁ","Ẃ","Ẅ","Ẇ","Ẉ",
    "Ẋ","Ẍ","Ẏ","Ẑ","Ẓ","Ẕ","ẞ","Ạ","Ả","Ấ","Ầ","Ẩ","Ẫ","Ậ","Ắ","Ằ","Ẳ","Ẵ",
    "Ặ","Ẹ","Ẻ","Ẽ","Ế","Ề","Ể","Ễ","Ệ","Ỉ","Ị","Ọ","Ỏ","Ố","Ồ","Ổ","Ỗ","Ộ",
    "Ớ","Ờ","Ở","Ỡ","Ợ","Ụ","Ủ","Ứ","Ừ","Ử","Ữ","Ự","Ỳ","Ỵ","Ỷ","Ỹ","Ỻ","Ỽ",
    "Ỿ","ᾈ","ᾉ","ᾊ","ᾋ","ᾌ","ᾍ","ᾎ","ᾏ","ᾘ","ᾙ","ᾚ","ᾛ","ᾜ","ᾝ","ᾞ","ᾟ","ᾨ",
    "ᾩ","ᾪ","ᾫ","ᾬ","ᾭ","ᾮ","ᾯ","Ᾰ","Ᾱ","Ὰ","Ά","ᾼ","Ὲ","Έ","Ὴ","Ή","ῌ","Ῐ",
    "Ῑ","Ὶ","Ί","Ῠ","Ῡ","Ὺ","Ύ","Ῥ","Ὸ","Ό","Ὼ","Ώ","ῼ","Ↄ","Ⓐ","Ⓑ","Ⓒ","Ⓓ",
    "Ⓔ","Ⓕ","Ⓖ","Ⓗ","Ⓘ","Ⓙ","Ⓚ","Ⓛ","Ⓜ","Ⓝ","Ⓞ","Ⓟ","Ⓠ","Ⓡ","Ⓢ","Ⓣ","Ⓤ","Ⓥ",
    "Ⓦ","Ⓧ","Ⓨ","Ⓩ","Ⲁ","Ⲃ","Ⲅ","Ⲇ","Ⲉ","Ⲋ","Ⲍ","Ⲏ","Ⲑ","Ⲓ","Ⲕ","Ⲗ","Ⲙ","Ⲛ",
    "Ⲝ","Ⲟ","Ⲡ","Ⲣ","Ⲥ","Ⲧ","Ⲩ","Ⲫ","Ⲭ","Ⲯ","Ⲱ","Ⲳ","Ⲵ","Ⲷ","Ⲹ","Ⲻ","Ⲽ","Ⲿ",
    "Ⳁ","Ⳃ","Ⳅ","Ⳇ","Ⳉ","Ⳋ","Ⳍ","Ⳏ","Ⳑ","Ⳓ","Ⳕ","Ⳗ","Ⳙ","Ⳛ","Ⳝ","Ⳟ","Ⳡ","Ⳣ",
    "Ⳬ","Ⳮ","Ⳳ","Ꚁ","Ꚃ","Ꚅ","Ꚇ","Ꚉ","Ꚋ","Ꚍ","Ꚏ","Ꚑ","Ꚓ","Ꚕ","Ꚗ","Ꚙ","Ꚛ","Ꞁ",
    "Ꞃ","Ꞅ","Ꞇ","Ꞌ","Ɥ","Ꞑ","Ꞓ","Ꞗ","Ꞙ","Ꞛ","Ꞝ","Ꞟ","Ꞡ","Ꞣ","Ꞥ","Ꞧ","Ꞩ","Ɦ",
    "Ɜ","Ɡ","Ɬ","Ɪ","Ʞ","Ʇ","Ʝ","Ꭓ","Ꞵ","Ꞷ","Ꞹ","Ꞻ","Ꞽ","Ꞿ","Ꟁ","Ꟃ","Ꞔ","Ʂ",
    "Ᶎ","Ꟈ","Ꟊ","Ɤ","Ꟍ","꟎","Ꟑ","꟒","꟔","Ꟗ","Ꟙ","Ꟛ","Ƛ","Ꟶ">>

Lower == <<
    "a","b","c","d","e","f","g","h","i","j","k","l","m","n","o","p","q","r",
    "s","t","u","v","w","x","y","z","à","á","â","ã","ä","å","æ","ç","è","é",
    "ê","ë","ì","í","î","ï","ð","ñ","ò","ó","ô","õ","ö","ø","ù","ú","û","ü",
    "ý","þ","U+0253","ƃ","ƅ","U+0254","ƈ","U+0256","U+0257","ƌ","ǝ",
    "U+0259","U+025B","ƒ","U+0260","U+0263","U+0269","U+0268","ƙ","U+026F",
    "U+0272","U+0275","ơ","ƣ","ƥ","ʀ","ƨ","ʃ","ƭ","ʈ","ư","ʊ","ʋ","ƴ","ƶ",
    "ʒ","ƹ","ƽ","ǆ","ǆ","ǉ","ǉ","ǌ","ǌ","ǎ","ǐ","ǒ","ǔ","ǖ","ǘ","ǚ","ǜ","ǟ",
    "ǡ","ǣ","ǥ","ǧ","ǩ","ǫ","ǭ","ǯ","ǳ","ǳ","ǵ","ƕ","ƿ","ǹ","ǻ","ǽ","ǿ","ά",
    "έ","ή","ί","ό","ύ","ώ","α","β","γ","δ","ε","ζ","η","θ","ι","κ","λ","μ",
    "ν","ξ","ο","π","ρ","τ","υ","φ","χ","ψ","ω","ϊ","ϋ","ϗ","ϙ","ϛ","ϝ","ϟ",
    "ϡ","ϣ","ϥ","ϧ","ϩ","ϫ","ϭ","ϯ","θ","ϸ","ϲ","ϻ","U+037B","U+037C",
    "U+037D","ҁ","ҋ","ҍ","ҏ","ґ","ғ","ҕ","җ","ҙ","қ","ҝ","ҟ","ҡ","ң","ҥ",
    "ҧ","ҩ","ҫ","ҭ","ү","ұ","ҳ","ҵ","ҷ","ҹ","һ","ҽ","ҿ","ӏ","ӂ","ӄ","ӆ","ӈ",
    "ӊ","ӌ","ӎ","ӑ","ӓ","ӕ","ӗ","ә","ӛ","ӝ","ӟ","ӡ","ӣ","ӥ","ӧ","ө","ӫ","ӭ",
    "ӯ","ӱ","ӳ","ӵ","ӷ","ӹ","ӻ","ӽ","ӿ","U+2D00","U+2D01","U+2D02","U+2D03",
    "U+2D04","U+2D05","U+2D06","U+2D07","U+2D08","U+2D09","U+2D0A","U+2D0B",
    "U+2D0C","U+2D0D","U+2D0E","U+2D0F","U+2D10","U+2D11","U+2D12","U+2D13",
    "U+2D14","U+2D15","U+2D16","U+2D17","U+2D18","U+2D19","U+2D1A","U+2D1B",
    "U+2D1C","U+2D1D","U+2D1E","U+2D1F","U+2D20","U+2D21","U+2D22","U+2D23",
    "U+2D24","U+2D25","U+2D27","U+2D2D","U+AB70","U+AB71","U+AB72","U+AB73",
    "U+AB74","U+AB75","U+AB76","U+AB77","U+AB78","U+AB79","U+AB7A","U+AB7B",
    "U+AB7C","U+AB7D","U+AB7E","U+AB7F","ꮀ","ꮁ","ꮂ","ꮃ","ꮄ","ꮅ","ꮆ","ꮇ","ꮈ",
    "ꮉ","ꮊ","ꮋ","ꮌ","ꮍ","ꮎ","ꮏ","ꮐ","ꮑ","ꮒ","ꮓ","ꮔ","ꮕ","ꮖ","ꮗ","ꮘ","ꮙ","ꮚ",
    "ꮛ","ꮜ","ꮝ","ꮞ","ꮟ","ꮠ","ꮡ","ꮢ","ꮣ","ꮤ","ꮥ","ꮦ","ꮧ","ꮨ","ꮩ","ꮪ","ꮫ","ꮬ",
    "ꮭ","ꮮ","ꮯ","ꮰ","ꮱ","ꮲ","ꮳ","ꮴ","ꮵ","ꮶ","ꮷ","ꮸ","ꮹ","ꮺ","ꮻ","ꮼ","ꮽ","ꮾ",
    "ꮿ","ᏸ","ᏹ","ᏺ","ᏻ","ᏼ","ᏽ","ᲊ","ა","ბ","გ","დ","ე","ვ","ზ","თ","ი","კ",
    "ლ","მ","ნ","ო","პ","ჟ","რ","ს","ტ","უ","ფ","ქ","ღ","ყ","შ","ჩ","ც","ძ",
    "წ","ჭ","ხ","ჯ","ჰ","ჱ","ჲ","ჳ","ჴ","ჵ","ჶ","ჷ","ჸ","ჹ","ჺ","ჽ","ჾ","ჿ",
    "ẁ","ẃ","ẅ","ẇ","ẉ","ẋ","ẍ","ẏ","ẑ","ẓ","ẕ","ß","ạ","ả","ấ","ầ","ẩ","ẫ",
    "ậ","ắ","ằ","ẳ","ẵ","ặ","ẹ","ẻ","ẽ","ế","ề","ể","ễ","ệ","ỉ","ị","ọ","ỏ",
    "ố","ồ","ổ","ỗ","ộ","ớ","ờ","ở","ỡ","ợ","ụ","ủ","ứ","ừ","ử","ữ","ự","ỳ",
    "ỵ","ỷ","ỹ","ỻ","ỽ","ỿ","ᾀ","ᾁ","ᾂ","ᾃ","ᾄ","ᾅ","ᾆ","ᾇ","ᾐ","ᾑ","ᾒ","ᾓ",
    "ᾔ","ᾕ","ᾖ","ᾗ","ᾠ","ᾡ","ᾢ","ᾣ","ᾤ","ᾥ","ᾦ","ᾧ","ᾰ","ᾱ","U+1F70",
    "U+1F71","ᾳ","U+1F72","U+1F73","U+1F74","U+1F75","ῃ","ῐ","ῑ","U+1F76",
    "U+1F77","ῠ","ῡ","U+1F7A","U+1F7B","ῥ","U+1F78","U+1F79","U+1F7C",
    "U+1F7D","ῳ","ↄ","ⓐ","ⓑ","ⓒ","ⓓ","ⓔ","ⓕ","ⓖ","ⓗ","ⓘ","ⓙ","ⓚ","ⓛ","ⓜ",
    "ⓝ","ⓞ","ⓟ","ⓠ","ⓡ","ⓢ","ⓣ","ⓤ","ⓥ","ⓦ","ⓧ","ⓨ","ⓩ","ⲁ","ⲃ","ⲅ","ⲇ","ⲉ",
    "ⲋ","ⲍ","ⲏ","ⲑ","ⲓ","ⲕ","ⲗ","ⲙ","ⲛ","ⲝ","ⲟ","ⲡ","ⲣ","ⲥ","ⲧ","ⲩ","ⲫ","ⲭ",
    "ⲯ","ⲱ","ⲳ","ⲵ","ⲷ","ⲹ","ⲻ","ⲽ","ⲿ","ⳁ","ⳃ","ⳅ","ⳇ","ⳉ","ⳋ","ⳍ","ⳏ","ⳑ",
    "ⳓ","ⳕ","ⳗ","ⳙ","ⳛ","ⳝ","ⳟ","ⳡ","ⳣ","ⳬ","ⳮ","ⳳ","ꚁ","ꚃ","ꚅ","ꚇ","ꚉ","ꚋ",
    "ꚍ","ꚏ","ꚑ","ꚓ","ꚕ","ꚗ","ꚙ","ꚛ","ꞁ","ꞃ","ꞅ","ꞇ","ꞌ","U+0265","ꞑ","ꞓ",
    "ꞗ","ꞙ","ꞛ","ꞝ","ꞟ","ꞡ","ꞣ","ꞥ","ꞧ","ꞩ","U+0266","U+025C","U+0261",
    "U+026C","U+026A","ʞ","ʇ","ʝ","U+AB53","ꞵ","ꞷ","ꞹ","ꞻ","ꞽ","ꞿ","ꟁ","ꟃ",
    "ꞔ","ʂ","ᶎ","ꟈ","ꟊ","U+0264","ꟍ","꟏","ꟑ","ꟓ","ꟕ","ꟗ","ꟙ","ꟛ","ƛ","ꟶ">>

\* The White_Space characters (char::is_whitespace) a string of this module
\* can hold: U+0009..U+000D, U+0020, U+0085, U+00A0, U+1680.
WhiteSpace == {
    "\t","\n","","\f","\r"," ",""," "," "}

\* The characters with the Cased property that are not Case_Ignorable, the
\* characters of Lower written by code point among them.
CasedChars == {
    "A","B","C","D","E","F","G","H","I","J","K","L","M","N","O","P","Q","R",
    "S","T","U","V","W","X","Y","Z","a","b","c","d","e","f","g","h","i","j",
    "k","l","m","n","o","p","q","r","s","t","u","v","w","x","y","z","ª","µ",
    "º","À","Á","Â","Ã","Ä","Å","Æ","Ç","È","É","Ê","Ë","Ì","Í","Î","Ï","Ð",
    "Ñ","Ò","Ó","Ô","Õ","Ö","Ø","Ù","Ú","Û","Ü","Ý","Þ","ß","à","á","â","ã",
    "ä","å","æ","ç","è","é","ê","ë","ì","í","î","ï","ð","ñ","ò","ó","ô","õ",
    "ö","ø","ù","ú","û","ü","ý","þ","ÿ","ƀ","Ɓ","Ƃ","ƃ","Ƅ","ƅ","Ɔ","Ƈ","ƈ",
    "Ɖ","Ɗ","Ƌ","ƌ","ƍ","Ǝ","Ə","Ɛ","Ƒ","ƒ","Ɠ","Ɣ","ƕ","Ɩ","Ɨ","Ƙ","ƙ","ƚ",
    "ƛ","Ɯ","Ɲ","ƞ","Ɵ","Ơ","ơ","Ƣ","ƣ","Ƥ","ƥ","Ʀ","Ƨ","ƨ","Ʃ","ƪ","ƫ","Ƭ",
    "ƭ","Ʈ","Ư","ư","Ʊ","Ʋ","Ƴ","ƴ","Ƶ","ƶ","Ʒ","Ƹ","ƹ","ƺ","Ƽ","ƽ","ƾ","ƿ",
    "Ǆ","ǅ","ǆ","Ǉ","ǈ","ǉ","Ǌ","ǋ","ǌ","Ǎ","ǎ","Ǐ","ǐ","Ǒ","ǒ","Ǔ","ǔ","Ǖ",
    "ǖ","Ǘ","ǘ","Ǚ","ǚ","Ǜ","ǜ","ǝ","Ǟ","ǟ","Ǡ","ǡ","Ǣ","ǣ","Ǥ","ǥ","Ǧ","ǧ",
    "Ǩ","ǩ","Ǫ","ǫ","Ǭ","ǭ","Ǯ","ǯ","ǰ","Ǳ","ǲ","ǳ","Ǵ","ǵ","Ƕ","Ƿ","Ǹ","ǹ",
    "Ǻ","ǻ","Ǽ","ǽ","Ǿ","ǿ","ʀ","ʁ","ʂ","ʃ","ʄ","ʅ","ʆ","ʇ","ʈ","ʉ","ʊ","ʋ",
    "ʌ","ʍ","ʎ","ʏ","ʐ","ʑ","ʒ","ʓ","ʖ","ʗ","ʘ","ʙ","ʚ","ʛ","ʜ","ʝ","ʞ","ʟ",
    "ʠ","ʡ","ʢ","ʣ","ʤ","ʥ","ʦ","ʧ","ʨ","ʩ","ʪ","ʫ","ʬ","ʭ","ʮ","ʯ","Ά","Έ",
    "Ή","Ί","Ό","Ύ","Ώ","ΐ","Α","Β","Γ","Δ","Ε","Ζ","Η","Θ","Ι","Κ","Λ","Μ",
    "Ν","Ξ","Ο","Π","Ρ","Σ","Τ","Υ","Φ","Χ","Ψ","Ω","Ϊ","Ϋ","ά","έ","ή","ί",
    "ΰ","α","β","γ","δ","ε","ζ","η","θ","ι","κ","λ","μ","ν","ξ","ο","π","ρ",
    "ς","σ","τ","υ","φ","χ","ψ","ω","ϊ","ϋ","ό","ύ","ώ","Ϗ","ϐ","ϑ","ϒ","ϓ",
    "ϔ","ϕ","ϖ","ϗ","Ϙ","ϙ","Ϛ","ϛ","Ϝ","ϝ","Ϟ","ϟ","Ϡ","ϡ","Ϣ","ϣ","Ϥ","ϥ",
    "Ϧ","ϧ","Ϩ","ϩ","Ϫ","ϫ","Ϭ","ϭ","Ϯ","ϯ","ϰ","ϱ","ϲ","ϳ","ϴ","ϵ","Ϸ","ϸ",
    "Ϲ","Ϻ","ϻ","ϼ","Ͻ","Ͼ","Ͽ","Ҁ","ҁ","Ҋ","ҋ","Ҍ","ҍ","Ҏ","ҏ","Ґ","ґ","Ғ",
    "ғ","Ҕ","ҕ","Җ","җ","Ҙ","ҙ","Қ","қ","Ҝ","ҝ","Ҟ","ҟ","Ҡ","ҡ","Ң","ң","Ҥ",
    "ҥ","Ҧ","ҧ","Ҩ","ҩ","Ҫ","ҫ","Ҭ","ҭ","Ү","ү","Ұ","ұ","Ҳ","ҳ","Ҵ","ҵ","Ҷ",
    "ҷ","Ҹ","ҹ","Һ","һ","Ҽ","ҽ","Ҿ","ҿ","Ӏ","Ӂ","ӂ","Ӄ","ӄ","Ӆ","ӆ","Ӈ","ӈ",
    "Ӊ","ӊ","Ӌ","ӌ","Ӎ","ӎ","ӏ","Ӑ","ӑ","Ӓ","ӓ","Ӕ","ӕ","Ӗ","ӗ","Ә","ә","Ӛ",
    "ӛ","Ӝ","ӝ","Ӟ","ӟ","Ӡ","ӡ","Ӣ","ӣ","Ӥ","ӥ","Ӧ","ӧ","Ө","ө","Ӫ","ӫ","Ӭ",
    "ӭ","Ӯ","ӯ","Ӱ","ӱ","Ӳ","ӳ","Ӵ","ӵ","Ӷ","ӷ","Ӹ","ӹ","Ӻ","ӻ","Ӽ","ӽ","Ӿ",
    "ӿ","ր","ց","ւ","փ","ք","օ","ֆ","և","ֈ","Ⴀ","Ⴁ","Ⴂ","Ⴃ","Ⴄ","Ⴅ","Ⴆ","Ⴇ",
    "Ⴈ","Ⴉ","Ⴊ","Ⴋ","Ⴌ","Ⴍ","Ⴎ","Ⴏ","Ⴐ","Ⴑ","Ⴒ","Ⴓ","Ⴔ","Ⴕ","Ⴖ","Ⴗ","Ⴘ","Ⴙ",
    "Ⴚ","Ⴛ","Ⴜ","Ⴝ","Ⴞ","Ⴟ","Ⴠ","Ⴡ","Ⴢ","Ⴣ","Ⴤ","Ⴥ","Ⴧ","Ⴭ","ა","ბ","გ","დ",
    "ე","ვ","ზ","თ","ი","კ","ლ","მ","ნ","ო","პ","ჟ","რ","ს","ტ","უ","ფ","ქ",
    "ღ","ყ","შ","ჩ","ც","ძ","წ","ჭ","ხ","ჯ","ჰ","ჱ","ჲ","ჳ","ჴ","ჵ","ჶ","ჷ",
    "ჸ","ჹ","ჺ","ჽ","ჾ","ჿ","Ꭰ","Ꭱ","Ꭲ","Ꭳ","Ꭴ","Ꭵ","Ꭶ","Ꭷ","Ꭸ","Ꭹ","Ꭺ","Ꭻ",
    "Ꭼ","Ꭽ","Ꭾ","Ꭿ","Ꮀ","Ꮁ","Ꮂ","Ꮃ","Ꮄ","Ꮅ","Ꮆ","Ꮇ","Ꮈ","Ꮉ","Ꮊ","Ꮋ","Ꮌ","Ꮍ",
    "Ꮎ","Ꮏ","Ꮐ","Ꮑ","Ꮒ","Ꮓ","Ꮔ","Ꮕ","Ꮖ","Ꮗ","Ꮘ","Ꮙ","Ꮚ","Ꮛ","Ꮜ","Ꮝ","Ꮞ","Ꮟ",
    "Ꮠ","Ꮡ","Ꮢ","Ꮣ","Ꮤ","Ꮥ","Ꮦ","Ꮧ","Ꮨ","Ꮩ","Ꮪ","Ꮫ","Ꮬ","Ꮭ","Ꮮ","Ꮯ","Ꮰ","Ꮱ",
    "Ꮲ","Ꮳ","Ꮴ","Ꮵ","Ꮶ","Ꮷ","Ꮸ","Ꮹ","Ꮺ","Ꮻ","Ꮼ","Ꮽ","Ꮾ","Ꮿ","Ᏸ","Ᏹ","Ᏺ","Ᏻ",
    "Ᏼ","Ᏽ","ᏸ","ᏹ","ᏺ","ᏻ","ᏼ","ᏽ","ᲀ","ᲁ","ᲂ","ᲃ","ᲄ","ᲅ","ᲆ","ᲇ","ᲈ","Ᲊ",
    "ᲊ","Ა","Ბ","Გ","Დ","Ე","Ვ","Ზ","Თ","Ი","Კ","Ლ","Მ","Ნ","Ო","Პ","Ჟ","Რ",
    "Ს","Ტ","Უ","Ფ","Ქ","Ღ","Ყ","Შ","Ჩ","Ც","Ძ","Წ","Ჭ","Ხ","Ჯ","Ჰ","Ჱ","Ჲ",
    "Ჳ","Ჴ","Ჵ","Ჶ","Ჷ","Ჸ","Ჹ","Ჺ","Ჽ","Ჾ","Ჿ","ᶀ","ᶁ","ᶂ","ᶃ","ᶄ","ᶅ","ᶆ",
    "ᶇ","ᶈ","ᶉ","ᶊ","ᶋ","ᶌ","ᶍ","ᶎ","ᶏ","ᶐ","ᶑ","ᶒ","ᶓ","ᶔ","ᶕ","ᶖ","ᶗ","ᶘ",
    "ᶙ","ᶚ","Ẁ","ẁ","Ẃ","ẃ","Ẅ","ẅ","Ẇ","ẇ","Ẉ","ẉ","Ẋ","ẋ","Ẍ","ẍ","Ẏ","ẏ",
    "Ẑ","ẑ","Ẓ","ẓ","Ẕ","ẕ","ẖ","ẗ","ẘ","ẙ","ẚ","ẛ","ẜ","ẝ","ẞ","ẟ","Ạ","ạ",
    "Ả","ả","Ấ","ấ","Ầ","ầ","Ẩ","ẩ","Ẫ","ẫ","Ậ","ậ","Ắ","ắ","Ằ","ằ","Ẳ","ẳ",
    "Ẵ","ẵ","Ặ","ặ","Ẹ","ẹ","Ẻ","ẻ","Ẽ","ẽ","Ế","ế","Ề","ề","Ể","ể","Ễ","ễ",
    "Ệ","ệ","Ỉ","ỉ","Ị","ị","Ọ","ọ","Ỏ","ỏ","Ố","ố","Ồ","ồ","Ổ","ổ","Ỗ","ỗ",
    "Ộ","ộ","Ớ","ớ","Ờ","ờ","Ở","ở","Ỡ","ỡ","Ợ","ợ","Ụ","ụ","Ủ","ủ","Ứ","ứ",
    "Ừ","ừ","Ử","ử","Ữ","ữ","Ự","ự","Ỳ","ỳ","Ỵ","ỵ","Ỷ","ỷ","Ỹ","ỹ","Ỻ","ỻ",
    "Ỽ","ỽ","Ỿ","ỿ","ᾀ","ᾁ","ᾂ","ᾃ","ᾄ","ᾅ","ᾆ","ᾇ","ᾈ","ᾉ","ᾊ","ᾋ","ᾌ","ᾍ",
    "ᾎ","ᾏ","ᾐ","ᾑ","ᾒ","ᾓ","ᾔ","ᾕ","ᾖ","ᾗ","ᾘ","ᾙ","ᾚ","ᾛ","ᾜ","ᾝ","ᾞ","ᾟ",
    "ᾠ","ᾡ","ᾢ","ᾣ","ᾤ","ᾥ","ᾦ","ᾧ","ᾨ","ᾩ","ᾪ","ᾫ","ᾬ","ᾭ","ᾮ","ᾯ","ᾰ","ᾱ",
    "ᾲ","ᾳ","ᾴ","ᾶ","ᾷ","Ᾰ","Ᾱ","Ὰ","Ά","ᾼ","ι","ῂ","ῃ","ῄ","ῆ","ῇ","Ὲ","Έ",
    "Ὴ","Ή","ῌ","ῐ","ῑ","ῒ","ΐ","ῖ","ῗ","Ῐ","Ῑ","Ὶ","Ί","ῠ","ῡ","ῢ","ΰ","ῤ",
    "ῥ","ῦ","ῧ","Ῠ","Ῡ","Ὺ","Ύ","Ῥ","ῲ","ῳ","ῴ","ῶ","ῷ","Ὸ","Ό","Ὼ","Ώ","ῼ",
    "Ↄ","ↄ","Ⓐ","Ⓑ","Ⓒ","Ⓓ","Ⓔ","Ⓕ","Ⓖ","Ⓗ","Ⓘ","Ⓙ","Ⓚ","Ⓛ","Ⓜ","Ⓝ","Ⓞ","Ⓟ",
    "Ⓠ","Ⓡ","Ⓢ","Ⓣ","Ⓤ","Ⓥ","Ⓦ","Ⓧ","Ⓨ","Ⓩ","ⓐ","ⓑ","ⓒ","ⓓ","ⓔ","ⓕ","ⓖ","ⓗ",
    "ⓘ","ⓙ","ⓚ","ⓛ","ⓜ","ⓝ","ⓞ","ⓟ","ⓠ","ⓡ","ⓢ","ⓣ","ⓤ","ⓥ","ⓦ","ⓧ","ⓨ","ⓩ",
    "Ⲁ","ⲁ","Ⲃ","ⲃ","Ⲅ","ⲅ","Ⲇ","ⲇ","Ⲉ","ⲉ","Ⲋ","ⲋ","Ⲍ","ⲍ","Ⲏ","ⲏ","Ⲑ","ⲑ",
    "Ⲓ","ⲓ","Ⲕ","ⲕ","Ⲗ","ⲗ","Ⲙ","ⲙ","Ⲛ","ⲛ","Ⲝ","ⲝ","Ⲟ","ⲟ","Ⲡ","ⲡ","Ⲣ","ⲣ",
    "Ⲥ","ⲥ","Ⲧ","ⲧ","Ⲩ","ⲩ","Ⲫ","ⲫ","Ⲭ","ⲭ","Ⲯ","ⲯ","Ⲱ","ⲱ","Ⲳ","ⲳ","Ⲵ","ⲵ",
    "Ⲷ","ⲷ","Ⲹ","ⲹ","Ⲻ","ⲻ","Ⲽ","ⲽ","Ⲿ","ⲿ","Ⳁ","ⳁ","Ⳃ","ⳃ","Ⳅ","ⳅ","Ⳇ","ⳇ",
    "Ⳉ","ⳉ","Ⳋ","ⳋ","Ⳍ","ⳍ","Ⳏ","ⳏ","Ⳑ","ⳑ","Ⳓ","ⳓ","Ⳕ","ⳕ","Ⳗ","ⳗ","Ⳙ","ⳙ",
    "Ⳛ","ⳛ","Ⳝ","ⳝ","Ⳟ","ⳟ","Ⳡ","ⳡ","Ⳣ","ⳣ","ⳤ","Ⳬ","ⳬ","Ⳮ","ⳮ","Ⳳ","ⳳ","Ꚁ",
    "ꚁ","Ꚃ","ꚃ","Ꚅ","ꚅ","Ꚇ","ꚇ","Ꚉ","ꚉ","Ꚋ","ꚋ","Ꚍ","ꚍ","Ꚏ","ꚏ","Ꚑ","ꚑ","Ꚓ",
    "ꚓ","Ꚕ","ꚕ","Ꚗ","ꚗ","Ꚙ","ꚙ","Ꚛ","ꚛ","Ꞁ","ꞁ","Ꞃ","ꞃ","Ꞅ","ꞅ","Ꞇ","ꞇ","Ꞌ",
    "ꞌ","Ɥ","ꞎ","Ꞑ","ꞑ","Ꞓ","ꞓ","ꞔ","ꞕ","Ꞗ","ꞗ","Ꞙ","ꞙ","Ꞛ","ꞛ","Ꞝ","ꞝ","Ꞟ",
    "ꞟ","Ꞡ","ꞡ","Ꞣ","ꞣ","Ꞥ","ꞥ","Ꞧ","ꞧ","Ꞩ","ꞩ","Ɦ","Ɜ","Ɡ","Ɬ","Ɪ","ꞯ","Ʞ",
    "Ʇ","Ʝ","Ꭓ","Ꞵ","ꞵ","Ꞷ","ꞷ","Ꞹ","ꞹ","Ꞻ","ꞻ","Ꞽ","ꞽ","Ꞿ","ꞿ","Ꟁ","ꟁ","Ꟃ",
    "ꟃ","Ꞔ","Ʂ","Ᶎ","Ꟈ","ꟈ","Ꟊ","ꟊ","Ɤ","Ꟍ","ꟍ","꟎","꟏","Ꟑ","ꟑ","꟒","ꟓ","꟔",
    "ꟕ","Ꟗ","ꟗ","Ꟙ","ꟙ","Ꟛ","ꟛ","Ƛ","Ꟶ","ꟶ","ꟺ","ꮀ","ꮁ","ꮂ","ꮃ","ꮄ","ꮅ","ꮆ",
    "ꮇ","ꮈ","ꮉ","ꮊ","ꮋ","ꮌ","ꮍ","ꮎ","ꮏ","ꮐ","ꮑ","ꮒ","ꮓ","ꮔ","ꮕ","ꮖ","ꮗ","ꮘ",
    "ꮙ","ꮚ","ꮛ","ꮜ","ꮝ","ꮞ","ꮟ","ꮠ","ꮡ","ꮢ","ꮣ","ꮤ","ꮥ","ꮦ","ꮧ","ꮨ","ꮩ","ꮪ",
    "ꮫ","ꮬ","ꮭ","ꮮ","ꮯ","ꮰ","ꮱ","ꮲ","ꮳ","ꮴ","ꮵ","ꮶ","ꮷ","ꮸ","ꮹ","ꮺ","ꮻ","ꮼ",
    "ꮽ","ꮾ","ꮿ","U+0253","U+0254","U+0256","U+0257","U+0259","U+025B",
    "U+025C","U+0260","U+0261","U+0263","U+0264","U+0265","U+0266","U+0268",
    "U+0269","U+026A","U+026C","U+026F","U+0272","U+0275","U+037B","U+037C",
    "U+037D","U+1F70","U+1F71","U+1F72","U+1F73","U+1F74","U+1F75","U+1F76",
    "U+1F77","U+1F78","U+1F79","U+1F7A","U+1F7B","U+1F7C","U+1F7D","U+2D00",
    "U+2D01","U+2D02","U+2D03","U+2D04","U+2D05","U+2D06","U+2D07","U+2D08",
    "U+2D09","U+2D0A","U+2D0B","U+2D0C","U+2D0D","U+2D0E","U+2D0F","U+2D10",
    "U+2D11","U+2D12","U+2D13","U+2D14","U+2D15","U+2D16","U+2D17","U+2D18",
    "U+2D19","U+2D1A","U+2D1B","U+2D1C","U+2D1D","U+2D1E","U+2D1F","U+2D20",
    "U+2D21","U+2D22","U+2D23","U+2D24","U+2D25","U+2D27","U+2D2D","U+AB53",
    "U+AB70","U+AB71","U+AB72","U+AB73","U+AB74","U+AB75","U+AB76","U+AB77",
    "U+AB78","U+AB79","U+AB7A","U+AB7B","U+AB7C","U+AB7D","U+AB7E","U+AB7F"}

\* The characters with the Case_Ignorable property.
CaseIgnorable == {
    "'",".",":","^","¨","­","¯","´","·","¸","ʰ","ʱ","ʲ","ʳ","ʴ","ʵ","ʶ","ʷ",
    "ʸ","ʹ","ʺ","ʻ","ʼ","ʽ","ʾ","ʿ","ˀ","ˁ","˂","˃","˄","˅","ˆ","ˇ","ˈ","ˉ",
    "ˊ","ˋ","ˌ","ˍ","ˎ","ˏ","ː","ˑ","˒","˓","˔","˕","˖","˗","˘","˙","˚","˛",
    "˜","˝","˞","˟","ˠ","ˡ","ˢ","ˣ","ˤ","˥","˦","˧","˨","˩","˪","˫","ˬ","˭",
    "ˮ","˯","˰","˱","˲","˳","˴","˵","˶","˷","˸","˹","˺","˻","˼","˽","˾","˿",
    "΄","΅","·","҃","҄","҅","҆","҇","҈","҉","֑","֒","֓","֔","֕","֖","֗","֘",
    "֙","֚","֛","֜","֝","֞","֟","֠","֡","֢","֣","֤","֥","֦","֧","֨","֩","֪",
    "֫","֬","֭","֮","֯","ְ","ֱ","ֲ","ֳ","ִ","ֵ","ֶ","ַ","ָ","ֹ","ֺ","ֻ","ּ",
    "ֽ","ֿ","ׁ","ׂ","ׄ","ׅ","ׇ","״","ۖ","ۗ","ۘ","ۙ","ۚ","ۛ","ۜ","۝","۟","۠",
    "ۡ","ۢ","ۣ","ۤ","ۥ","ۦ","ۧ","ۨ","۪","۫","۬","ۭ","ަ","ާ","ި","ީ","ު","ޫ",
    "ެ","ޭ","ޮ","ޯ","ް","߫","߬","߭","߮","߯","߰","߱","߲","߳","ߴ","ߵ","ߺ","߽",
    "࢈","࢐","࢑","ࢗ","࢘","࢙","࢚","࢛","࢜","࢝","࢞","࢟","ࣉ","࣊","࣋","࣌","࣍","࣎",
    "࣏","࣐","࣑","࣒","࣓","ࣔ","ࣕ","ࣖ","ࣗ","ࣘ","ࣙ","ࣚ","ࣛ","ࣜ","ࣝ","ࣞ","ࣟ","࣠",
    "࣡","࣢","ࣣ","ࣤ","ࣥ","ࣦ","ࣧ","ࣨ","ࣩ","࣪","࣫","࣬","࣭","࣮","࣯","ࣰ","ࣱ","ࣲ",
    "ࣳ","ࣴ","ࣵ","ࣶ","ࣷ","ࣸ","ࣹ","ࣺ","ࣻ","ࣼ","ࣽ","ࣾ","ࣿ","ঁ","়","ু","ূ","ৃ",
    "ৄ","্","ৢ","ৣ","৾","ઁ","ં","઼","ુ","ૂ","ૃ","ૄ","ૅ","ે","ૈ","્","ૢ","ૣ",
    "ૺ","ૻ","ૼ","૽","૾","૿","ஂ","ீ","்","ಁ","಼","ಿ","ೆ","ೌ","್","ೢ","ೣ","ඁ",
    "්","ි","ී","ු","ූ","ັ","ິ","ີ","ຶ","ື","ຸ","ູ","຺","ົ","ຼ","ໆ","່","້",
    "໊","໋","໌","ໍ","໎","ྀ","ཱྀ","ྂ","ྃ","྄","྆","྇","ྍ","ྎ","ྏ","ྐ","ྑ","ྒ",
    "ྒྷ","ྔ","ྕ","ྖ","ྗ","ྙ","ྚ","ྛ","ྜ","ྜྷ","ྞ","ྟ","ྠ","ྡ","ྡྷ","ྣ","ྤ","ྥ",
    "ྦ","ྦྷ","ྨ","ྩ","ྪ","ྫ","ྫྷ","ྭ","ྮ","ྯ","ྰ","ྱ","ྲ","ླ","ྴ","ྵ","ྶ","ྷ",
    "ྸ","ྐྵ","ྺ","ྻ","ྼ","࿆","ႂ","ႅ","ႆ","ႍ","ႝ","ჼ","឴","឵","ិ","ី","ឹ","ឺ",
    "ុ","ូ","ួ","ំ","៉","៊","់","៌","៍","៎","៏","័","៑","្","៓","ៗ","៝","ᢅ",
    "ᢆ","ᢩ","ᪧ","᪰","᪱","᪲","᪳","᪴","᪵","᪶","᪷","᪸","᪹","᪺","᪻","᪼","᪽","᪾",
    "ᪿ","ᫀ","᫁","᫂","᫃","᫄","᫅","᫆","᫇","᫈","᫉","᫊","᫋","ᫌ","ᫍ","ᫎ","᫏","᫐",
    "᫑","᫒","᫓","᫔","᫕","᫖","᫗","᫘","᫙","᫚","᫛","᫜","᫝","᫠","᫡","᫢","᫣","᫤",
    "᫥","᫦","᫧","᫨","᫩","᫪","᫫","ᮀ","ᮁ","ᮢ","ᮣ","ᮤ","ᮥ","ᮨ","ᮩ","᮫","ᮬ","ᮭ",
    "᯦","ᯨ","ᯩ","ᯭ","ᯯ","ᯰ","ᯱ","᳐","᳑","᳒","᳔","᳕","᳖","᳗","᳘","᳙","᳚","᳛",
    "᳜","᳝","᳞","᳟","᳠","᳢","᳣","᳤","᳥","᳦","᳧","᳨","᳭","᳴","᳸","᳹","ᶛ","ᶜ",
    "ᶝ","ᶞ","ᶟ","ᶠ","ᶡ","ᶢ","ᶣ","ᶤ","ᶥ","ᶦ","ᶧ","ᶨ","ᶩ","ᶪ","ᶫ","ᶬ","ᶭ","ᶮ",
    "ᶯ","ᶰ","ᶱ","ᶲ","ᶳ","ᶴ","ᶵ","ᶶ","ᶷ","ᶸ","ᶹ","ᶺ","ᶻ","ᶼ","ᶽ","ᶾ","ᶿ","᷀",
    "᷁","᷂","᷃","᷄","᷅","᷆","᷇","᷈","᷉","᷊","᷋","᷌","᷍","᷎","᷏","᷐","᷑","᷒",
    "ᷓ","ᷔ","ᷕ","ᷖ","ᷗ","ᷘ","ᷙ","ᷚ","ᷛ","ᷜ","ᷝ","ᷞ","ᷟ","ᷠ","ᷡ","ᷢ","ᷣ","ᷤ",
    "ᷥ","ᷦ","ᷧ","ᷨ","ᷩ","ᷪ","ᷫ","ᷬ","ᷭ","ᷮ","ᷯ","ᷰ","ᷱ","ᷲ","ᷳ","ᷴ","᷵","᷶",
    "᷷","᷸","᷹","᷺","᷻","᷼","᷽","᷾","᷿","᾽","᾿","῀","῁","῍","῎","῏","῝","῞",
    "῟","῭","΅","`","´","῾","ₐ","ₑ","ₒ","ₓ","ₔ","ₕ","ₖ","ₗ","ₘ","ₙ","ₚ","ₛ",
    "ₜ","⃐","⃑","⃒","⃓","⃔","⃕","⃖","⃗","⃘","⃙","⃚","⃛","⃜","⃝","⃞","⃟","⃠",
    "⃡","⃢","⃣","⃤","⃥","⃦","⃧","⃨","⃩","⃪","⃫","⃬","⃭","⃮","⃯","⃰","⳯","⳰",
    "⳱","ⷠ","ⷡ","ⷢ","ⷣ","ⷤ","ⷥ","ⷦ","ⷧ","ⷨ","ⷩ","ⷪ","ⷫ","ⷬ","ⷭ","ⷮ","ⷯ","ⷰ",
    "ⷱ","ⷲ","ⷳ","ⷴ","ⷵ","ⷶ","ⷷ","ⷸ","ⷹ","ⷺ","ⷻ","ⷼ","ⷽ","ⷾ","ⷿ","゙","゚","゛",
    "゜","ゝ","ゞ","ー","ヽ","ヾ","ꓸ","ꓹ","ꓺ","ꓻ","ꓼ","ꓽ","ꚜ","ꚝ","ꚞ","ꚟ","꛰","꛱",
    "ꞈ","꞉","꞊","꟱","ꟲ","ꟳ","ꟴ","ꟸ","ꟹ","꣄","ꣅ","꣠","꣡","꣢","꣣","꣤","꣥","꣦",
    "꣧","꣨","꣩","꣪","꣫","꣬","꣭","꣮","꣯","꣰","꣱","ꣿ","ꦀ","ꦁ","ꦂ","꦳","ꦶ","ꦷ",
    "ꦸ","ꦹ","ꦼ","ꦽ","ꧏ","ꧥ","ꧦ","ꪰ","ꪲ","ꪳ","ꪴ","ꪷ","ꪸ","ꪾ","꪿","꫁","ꫝ","ꫬ",
    "ꫭ","ꫳ","ꫴ","꫶","ꯥ","ꯨ","꯭","﮲","﮳","﮴","﮵","﮶","﮷","﮸","﮹","﮺","﮻","﮼",
    "﮽","﮾","﮿","﯀","﯁","﯂","﻿","ﾞ","ﾟ","￣","￹","￺","￻"}

\* char::is_whitespace
IsWhitespace(c) == c \in WhiteSpace

LowerOf == [i \in 1..Len(Upper) |-> Lower[i]]
UpperIndex == [c \in {Upper[i] : i \in 1..Len(Upper)} |->
                  CHOOSE i \in 1..Len(Upper) : Upper[i] = c]

\* char::to_lowercase
ToLowerChar(c) ==
    IF c \in DOMAIN UpperIndex THEN LowerOf[UpperIndex[c]] ELSE c

\* str::to_lowercase's case_ignorable_then_cased, backwards from position i
\* and forwards from it: the nearest character that is not Case_Ignorable
\* exists and is Cased.
cased_before(s, i) ==
    LET J == {j \in 1..(i - 1) : s[j] \notin CaseIgnorable}
    IN J # {} /\ s[CHOOSE j \in J : \A k \in J : k <= j] \in CasedChars

cased_after(s, i) ==
    LET J == {j \in (i + 1)..Len(s) : s[j] \notin CaseIgnorable}
    IN J # {} /\ s[CHOOSE j \in J : \A k \in J : j <= k] \in CasedChars

\* str::to_lowercase's map_uppercase_sigma: a capital sigma at the end of a
\* word becomes the final sigma
map_uppercase_sigma(s, i) ==
    IF cased_before(s, i) /\ ~cased_after(s, i) THEN "ς" ELSE "σ"

\* str::to_lowercase
to_lowercase(s) ==
    [i \in 1..Len(s) |->
        IF s[i] = "Σ" THEN map_uppercase_sigma(s, i) ELSE ToLowerChar(s[i])]

RECURSIVE trim_start(_)
trim_start(s) ==
    IF s # <<>> /\ IsWhitespace(Head(s)) THEN trim_start(Tail(s)) ELSE s

RECURSIVE trim_end(_)
trim_end(s) ==
    IF s # <<>> /\ IsWhitespace(s[Len(s)])
    THEN trim_end(SubSeq(s, 1, Len(s) - 1))
    ELSE s

\* str::trim
trim(s) == trim_end(trim_start(s))

\* Option<String>
None == [some |-> FALSE, val |-> <<>>]
Some(s) == [some |-> TRUE, val |-> s]

\* t.find(w) and the slice &t[pos + w.len()..] taken at its offset (lines
\* 566-567): the text after the first match of w in t, if there is a match.
\* A text is a sequence of characters, so the match is located by character
\* where the code counts bytes; the slice is the same text either way.
after_first(t, w) ==
    LET hits == {p \in 0..(Len(t) - Len(w)) : SubSeq(t, p + 1, p + Len(w)) = w}
    IN IF hits = {} THEN None
       ELSE LET pos == CHOOSE p \in hits : \A q \in hits : p <= q
            IN Some(SubSeq(t, pos + Len(w) + 1, Len(t)))

HeyIris == <<"h","e","y"," ","i","r","i","s">>

DEFAULT_WAKE == <<HeyIris>>

\* contains_wake_word, from the k-th configured phrase on
RECURSIVE contains_from(_, _, _)
contains_from(t, wake_words, k) ==
    IF k > Len(wake_words) THEN None
    ELSE LET wake_word == wake_words[k]
             rest == after_first(t, wake_word)
         IN IF rest.some
            THEN LET after_wake == trim(rest.val)
                 IN IF after_wake # <<>>
                    THEN Some(wake_word \o <<" ">> \o after_wake)
                    ELSE Some(wake_word)
            ELSE contains_from(t, wake_words, k + 1)

contains_wake_word(text, wake_words) ==
    LET t == trim(to_lowercase(text))
    IN IF t = <<>> THEN None ELSE contains_from(t, wake_words, 1)

is_just_wake_word_no_lowercase(text, wake_words) ==
    \E k \in 1..Len(wake_words) : trim(text) = wake_words[k]

is_just_wake_word_prefix(text, wake_words) ==
    LET t == trim(to_lowercase(text))
    IN \E k \in 1..Len(wake_words) :
          SubSeq(t, 1, Len(wake_words[k])) = wake_words[k]

is_just_wake_word(text, wake_words) ==
    LET t == trim(to_lowercase(text))
    IN \E k \in 1..Len(wake_words) : t = wake_words[k]

\* The payload of the [COMMAND](...) tag printed on the single-utterance path
\* (line 617): "hey iris " followed by full_command.
FastPathCommand(full_command) == HeyIris \o <<" ">> \o full_command

WakeCommandUntrimmed(text) == text

\* The payload of the [COMMAND](...) tag printed in the WakeDetected branch
\* (line 627).
WakeCommand(text) == trim(text)

\* ------------------------------------------------------------- transcripts
T_Wake == HeyIris
T_WakePadded == <<"\f","H","e","y"," ","I","r","i","s"," ">>
T_WakeOn == HeyIris \o <<" ","o","n">>
T_WakeOnLoose == <<"H","e","y"," ","I","r","i","s"," "," ","o","n"," ">>
T_OkWake == <<"o","k"," ">> \o HeyIris
T_On == <<"o","n">>
T_Blank == <<" ">>
T_Empty == <<>>

\* What a finalized decode may yield as the text of its result.
Transcripts ==
    {T_Wake, T_WakePadded, T_WakeOn, T_WakeOnLoose, T_OkWake, T_On, T_Blank,
     T_Empty}

\* ------------------------------------------------------------------- state
VARIABLES
    state,              \* ListeningState
    triggered,          \* TriggerSignal
    err_flag,           \* ErrorSignal: "None" or "Some"
    active_recognizer,  \* ActiveIndex
    recognizers,        \* the slot pair: per slot, the handle's condition
    recsLock,           \* holder of the recognizers mutex
    recsPoisoned,       \* the recognizers mutex is poisoned
    stateLock,          \* holder of the state mutex across steps
    errLock,            \* holder of the err_flag mutex across steps
    CALL_COUNT,         \* static mut CALL_COUNT of create_waveform_match
    clock,              \* Instant::now(), ms
    cbPc,               \* position of the capture callback
    cb_active_idx,      \* its active_idx
    cbText,             \* the transcript it extracted
    current_state,      \* its clone of ListeningState
    cbCommand,          \* the [COMMAND] payload it printed
    cbNow,              \* the Instant::now() it evaluated for WakeDetected
    cbTrigSets,         \* how often it set triggered in this invocation
    cbStateWrites,      \* the ListeningStates it wrote in this invocation
    rotPc,              \* position of the swap thread
    inactive,           \* its inactive
    supPc,              \* position of the supervisory loop
    sup_active_idx,     \* its active_idx
    listening_printed,  \* its listening_printed
    supEmitted,         \* it printed [PROCESSED] in this iteration
    supLate,            \* start.elapsed() was past the ceiling when this
                        \* iteration began
    horizon,            \* where the observed window of clock and CALL_COUNT ends
    dmPc,               \* position of a data_fn downmix: "off", "input", "done"
    dmFormat,           \* the stream's sample format
    dmChannels,         \* config.channels
    dmData,             \* data, the interleaved input buffer
    dmOut               \* pcm_mono

vars == <<state, triggered, err_flag, active_recognizer, recognizers, recsLock,
          recsPoisoned, stateLock, errLock, CALL_COUNT, clock, cbPc,
          cb_active_idx, cbText, current_state, cbCommand, cbNow, cbTrigSets,
          cbStateWrites, rotPc, inactive, supPc, sup_active_idx,
          listening_printed, supEmitted, supLate, horizon, dmPc, dmFormat,
          dmChannels, dmData, dmOut>>

sharedVars == <<state, triggered, err_flag, active_recognizer, recognizers,
                recsLock, recsPoisoned, stateLock, errLock, CALL_COUNT, clock>>
cbVars == <<cbPc, cb_active_idx, cbText, current_state, cbCommand, cbNow,
            cbTrigSets,
            cbStateWrites>>
rotVars == <<rotPc, inactive>>
supVars == <<supPc, sup_active_idx, listening_printed, supEmitted, supLate>>
dmVars == <<dmPc, dmFormat, dmChannels, dmData, dmOut>>
auxVars == <<horizon, dmVars>>

Idle == [tag |-> "Idle", time |-> 0]
WakeDetected(t) == [tag |-> "WakeDetected", time |-> t]

\* A decoder handle: configured (set_max_alternatives .. set_nlsml applied),
\* fed (audio accumulated since construction or the last reset) and finalized
\* (it has finalized an utterance since construction or the last reset).
FreshHandle == [configured |-> FALSE, fed |-> FALSE, finalized |-> FALSE]
LiveHandle == [configured |-> TRUE, fed |-> FALSE, finalized |-> FALSE]

\* The process runs until main returns or panics.
ProcessRunning == supPc \notin {"panicked", "exited"}

Init ==
    /\ state = Idle
    /\ triggered = FALSE
    /\ err_flag = "None"
    /\ active_recognizer = 0
    /\ recognizers = [i \in 0..1 |-> LiveHandle]
    /\ recsLock = "none"
    /\ recsPoisoned = FALSE
    /\ stateLock = "none"
    /\ errLock = "none"
    /\ CALL_COUNT = 0
    /\ clock = 0
    /\ cbPc = "idle"
    /\ cb_active_idx = 0
    /\ cbText = <<>>
    /\ current_state = Idle
    /\ cbCommand = <<>>
    /\ cbNow = 0
    /\ cbTrigSets = 0
    /\ cbStateWrites = <<>>
    /\ rotPc = "sleep"
    /\ inactive = 0
    /\ supPc = "top"
    /\ sup_active_idx = 0
    /\ listening_printed = FALSE
    /\ supEmitted = FALSE
    /\ supLate = FALSE
    /\ horizon = [clock |-> MaxTicks * TickMs, calls |-> MaxCalls]
    /\ dmPc = "off"
    /\ dmFormat = "i16"
    /\ dmChannels = 1
    /\ dmData = <<>>
    /\ dmOut = <<>>

\* ------------------------------------------------------------------- clock
Tick ==
    /\ ProcessRunning
    /\ clock + TickMs <= horizon.clock
    /\ clock' = clock + TickMs
    /\ UNCHANGED <<state, triggered, err_flag, active_recognizer, recognizers,
                   recsLock, recsPoisoned, stateLock, errLock, CALL_COUNT>>
    /\ UNCHANGED <<cbVars, rotVars, supVars>>
    /\ UNCHANGED auxVars


\* -------------------------------------------------------- capture callback
\* data_fn, line 425: let active_idx = *active_recognizer.lock().unwrap()
CbReadActive ==
    /\ ProcessRunning
    /\ cbPc = "idle"
    /\ cb_active_idx' = active_recognizer
    /\ cbPc' = "lock_recs"
    /\ UNCHANGED <<cbText, current_state, cbCommand, cbNow, cbTrigSets, cbStateWrites>>
    /\ UNCHANGED <<sharedVars, rotVars, supVars>>
    /\ UNCHANGED auxVars

\* data_fn, line 426: let mut recs = recognizers.lock().unwrap()
CbLockRecs ==
    /\ ProcessRunning
    /\ cbPc = "lock_recs"
    /\ recsLock = "none"
    /\ IF recsPoisoned
       THEN /\ cbPc' = "panicked"
            /\ UNCHANGED recsLock
       ELSE /\ cbPc' = "decode"
            /\ recsLock' = "cb"
    /\ UNCHANGED <<state, triggered, err_flag, active_recognizer, recognizers,
                   recsPoisoned, stateLock, errLock, CALL_COUNT, clock>>
    /\ UNCHANGED <<cb_active_idx, cbText, current_state, cbCommand, cbNow, cbTrigSets,
                   cbStateWrites>>
    /\ UNCHANGED <<rotVars, supVars>>
    /\ UNCHANGED auxVars

\* The callback returns: its locals go, the recognizers guard is dropped.
CbReturn ==
    /\ cbPc' = "idle"
    /\ recsLock' = "none"
    /\ cb_active_idx' = 0
    /\ cbText' = <<>>
    /\ current_state' = Idle
    /\ cbCommand' = <<>>
    /\ cbNow' = 0
    /\ cbTrigSets' = 0
    /\ cbStateWrites' = <<>>

\* Recognizer::reset on slot i
ResetHandle(recs, i) ==
    [recs EXCEPT ![i].fed = FALSE, ![i].finalized = FALSE]

\* Recognizer::accept_waveform on slot i, accepted
FeedHandle(recs, i) == [recs EXCEPT ![i].fed = TRUE]

\* Recognizer::accept_waveform on slot i, accepted, ends the utterance
FinalizeHandle(recs, i) ==
    [recs EXCEPT ![i].fed = TRUE, ![i].finalized = TRUE]

\* create_waveform_match, lines 590-600: Ok(DecodingState::Running)
CbDecodeRunning ==
    /\ ProcessRunning
    /\ cbPc = "decode"
    /\ CALL_COUNT < horizon.calls
    /\ CALL_COUNT' = CALL_COUNT + 1
    /\ recognizers' =
           IF CALL_COUNT' % ResetPeriod = 0
           THEN ResetHandle(FeedHandle(recognizers, cb_active_idx), cb_active_idx)
           ELSE FeedHandle(recognizers, cb_active_idx)
    /\ CbReturn
    /\ UNCHANGED <<state, triggered, err_flag, active_recognizer, recsPoisoned,
                   stateLock, errLock, clock>>
    /\ UNCHANGED <<rotVars, supVars>>
    /\ UNCHANGED auxVars

CbDecodeError_ResetsHandle ==
    /\ ProcessRunning
    /\ cbPc = "decode"
    /\ recognizers' = ResetHandle(recognizers, cb_active_idx)
    /\ CbReturn
    /\ UNCHANGED <<state, triggered, err_flag, active_recognizer,
                   recsPoisoned, stateLock, errLock, CALL_COUNT, clock>>
    /\ UNCHANGED <<rotVars, supVars>>
    /\ UNCHANGED auxVars

\* create_waveform_match, line 649: Err(_) => {}
CbDecodeError ==
    /\ ProcessRunning
    /\ cbPc = "decode"
    /\ CbReturn
    /\ UNCHANGED <<state, triggered, err_flag, active_recognizer, recognizers,
                   recsPoisoned, stateLock, errLock, CALL_COUNT, clock>>
    /\ UNCHANGED <<rotVars, supVars>>
    /\ UNCHANGED auxVars

\* create_waveform_match, lines 601-604: the utterance is finalized and its
\* text is extracted.
CbDecodeFinalized ==
    /\ ProcessRunning
    /\ cbPc = "decode"
    /\ \E text \in Transcripts : cbText' = text
    /\ recognizers' = FinalizeHandle(recognizers, cb_active_idx)
    /\ cbPc' = "read_state"
    /\ UNCHANGED <<state, triggered, err_flag, active_recognizer, recsLock,
                   recsPoisoned, stateLock, errLock, CALL_COUNT, clock>>
    /\ UNCHANGED <<cb_active_idx, current_state, cbCommand, cbNow, cbTrigSets,
                   cbStateWrites>>
    /\ UNCHANGED <<rotVars, supVars>>
    /\ UNCHANGED auxVars

\* create_waveform_match, lines 601-604 and 647: the utterance is finalized
\* and no text comes out of its result.
CbDecodeNoText ==
    /\ ProcessRunning
    /\ cbPc = "decode"
    /\ recognizers' = FinalizeHandle(recognizers, cb_active_idx)
    /\ cbPc' = "reset"
    /\ UNCHANGED <<state, triggered, err_flag, active_recognizer, recsLock,
                   recsPoisoned, stateLock, errLock, CALL_COUNT, clock>>
    /\ UNCHANGED <<cb_active_idx, cbText, current_state, cbCommand, cbNow, cbTrigSets,
                   cbStateWrites>>
    /\ UNCHANGED <<rotVars, supVars>>
    /\ UNCHANGED auxVars

MatchBranch_AnyText(s, text) ==
    IF s.tag = "Idle"
    THEN IF contains_wake_word(text, DEFAULT_WAKE).some
         THEN IF is_just_wake_word(text, DEFAULT_WAKE)
              THEN "set_wake"
              ELSE "set_trig_fast"
         ELSE "reset"
    ELSE "set_trig_cmd"

\* The branch create_waveform_match takes on lines 607-642 for the cloned
\* state s and the transcript text.
MatchBranch(s, text) ==
    IF s.tag = "Idle"
    THEN IF contains_wake_word(text, DEFAULT_WAKE).some
         THEN IF is_just_wake_word(text, DEFAULT_WAKE)
              THEN "set_wake"
              ELSE "set_trig_fast"
         ELSE "reset"
    ELSE IF trim(text) # <<>> THEN "set_trig_cmd" ELSE "reset"

\* What the branch prints as the [COMMAND] payload before it goes on to
\* triggered.lock(): lines 617 and 627.
BranchOutput(branch, text) ==
    IF branch = "set_trig_fast"
    THEN FastPathCommand(contains_wake_word(text, DEFAULT_WAKE).val)
    ELSE IF branch = "set_trig_cmd" THEN WakeCommand(text)
    ELSE <<>>

\* create_waveform_match, lines 605-617 and 624-627: the state is cloned under
\* a guard dropped at the end of the statement and the branch is chosen; up
\* to its next lock() the branch evaluates Instant::now() (the value assigned
\* on lines 612-614 is evaluated before the assignee's state.lock()) or
\* prints its [COMMAND] line.
CbReadState ==
    /\ ProcessRunning
    /\ cbPc = "read_state"
    /\ stateLock = "none"
    /\ current_state' = state
    /\ cbPc' = MatchBranch(state, cbText)
    /\ cbCommand' = BranchOutput(cbPc', cbText)
    /\ cbNow' = IF cbPc' = "set_wake" THEN clock ELSE 0
    /\ UNCHANGED <<cb_active_idx, cbText, cbTrigSets, cbStateWrites>>
    /\ UNCHANGED <<sharedVars, rotVars, supVars>>
    /\ UNCHANGED auxVars

\* create_waveform_match, lines 612-614: state.lock() and the write of the
\* value evaluated before it
CbSetWake ==
    /\ ProcessRunning
    /\ cbPc = "set_wake"
    /\ stateLock = "none"
    /\ state' = WakeDetected(cbNow)
    /\ cbStateWrites' = Append(cbStateWrites, state')
    /\ cbPc' = "reset"
    /\ UNCHANGED <<triggered, err_flag, active_recognizer, recognizers, recsLock,
                   recsPoisoned, stateLock, errLock, CALL_COUNT, clock>>
    /\ UNCHANGED <<cb_active_idx, cbText, current_state, cbCommand, cbNow, cbTrigSets>>
    /\ UNCHANGED <<rotVars, supVars>>
    /\ UNCHANGED auxVars

\* create_waveform_match, lines 618-620
CbSetTrigFast ==
    /\ ProcessRunning
    /\ cbPc = "set_trig_fast"
    /\ UNCHANGED <<cbCommand, cbNow>>
    /\ triggered' = TRUE
    /\ cbTrigSets' = cbTrigSets + 1
    /\ cbPc' = "reset"
    /\ UNCHANGED <<state, err_flag, active_recognizer, recognizers, recsLock,
                   recsPoisoned, stateLock, errLock, CALL_COUNT, clock>>
    /\ UNCHANGED <<cb_active_idx, cbText, current_state, cbStateWrites>>
    /\ UNCHANGED <<rotVars, supVars>>
    /\ UNCHANGED auxVars

\* create_waveform_match, lines 628-630
CbSetTrigCmd ==
    /\ ProcessRunning
    /\ cbPc = "set_trig_cmd"
    /\ UNCHANGED <<cbCommand, cbNow>>
    /\ triggered' = TRUE
    /\ cbTrigSets' = cbTrigSets + 1
    /\ cbPc' = "set_idle"
    /\ UNCHANGED <<state, err_flag, active_recognizer, recognizers, recsLock,
                   recsPoisoned, stateLock, errLock, CALL_COUNT, clock>>
    /\ UNCHANGED <<cb_active_idx, cbText, current_state, cbStateWrites>>
    /\ UNCHANGED <<rotVars, supVars>>
    /\ UNCHANGED auxVars

\* create_waveform_match, line 631
CbSetIdle ==
    /\ ProcessRunning
    /\ cbPc = "set_idle"
    /\ stateLock = "none"
    /\ state' = Idle
    /\ cbStateWrites' = Append(cbStateWrites, Idle)
    /\ cbPc' = "reset"
    /\ UNCHANGED <<triggered, err_flag, active_recognizer, recognizers, recsLock,
                   recsPoisoned, stateLock, errLock, CALL_COUNT, clock>>
    /\ UNCHANGED <<cb_active_idx, cbText, current_state, cbCommand, cbNow, cbTrigSets>>
    /\ UNCHANGED <<rotVars, supVars>>
    /\ UNCHANGED auxVars

CbReset_ReturnsOnly ==
    /\ ProcessRunning
    /\ cbPc = "reset"
    /\ CbReturn
    /\ UNCHANGED <<state, triggered, err_flag, active_recognizer, recognizers,
                   recsPoisoned, stateLock, errLock, CALL_COUNT, clock>>
    /\ UNCHANGED <<rotVars, supVars>>
    /\ UNCHANGED auxVars

\* create_waveform_match, line 647, and the return of data_fn
CbReset ==
    /\ ProcessRunning
    /\ cbPc = "reset"
    /\ recognizers' = ResetHandle(recognizers, cb_active_idx)
    /\ CbReturn
    /\ UNCHANGED <<state, triggered, err_flag, active_recognizer, recsPoisoned,
                   stateLock, errLock, CALL_COUNT, clock>>
    /\ UNCHANGED <<rotVars, supVars>>
    /\ UNCHANGED auxVars

\* err_fn, lines 436-440
ErrFn ==
    /\ ProcessRunning
    /\ errLock = "none"
    /\ err_flag' = "Some"
    /\ UNCHANGED <<state, triggered, active_recognizer, recognizers, recsLock,
                   recsPoisoned, stateLock, errLock, CALL_COUNT, clock>>
    /\ UNCHANGED <<cbVars, rotVars, supVars>>
    /\ UNCHANGED auxVars


\* ------------------------------------------------------------- swap thread
RotReadActive_SameSlot ==
    /\ ProcessRunning
    /\ rotPc = "sleep"
    /\ inactive' = active_recognizer
    /\ rotPc' = "lock_recs"
    /\ UNCHANGED <<sharedVars, cbVars, supVars>>
    /\ UNCHANGED auxVars

\* lines 268-271: the sleep ends; active is read, inactive computed
RotReadActive ==
    /\ ProcessRunning
    /\ rotPc = "sleep"
    /\ inactive' = 1 - active_recognizer
    /\ rotPc' = "lock_recs"
    /\ UNCHANGED <<sharedVars, cbVars, supVars>>
    /\ UNCHANGED auxVars

\* line 275: let mut recs = recognizers_clone.lock().unwrap()
RotLockRecs ==
    /\ ProcessRunning
    /\ rotPc = "lock_recs"
    /\ recsLock = "none"
    /\ recsLock' = "rot"
    /\ rotPc' = "construct"
    /\ UNCHANGED <<state, triggered, err_flag, active_recognizer, recognizers,
                   recsPoisoned, stateLock, errLock, CALL_COUNT, clock>>
    /\ UNCHANGED <<inactive, cbVars, supVars>>
    /\ UNCHANGED auxVars

\* lines 277-280: Recognizer::new returns Some; the old handle is replaced
RotConstructOk ==
    /\ ProcessRunning
    /\ rotPc = "construct"
    /\ recognizers' = [recognizers EXCEPT ![inactive] = FreshHandle]
    /\ rotPc' = "configure"
    /\ UNCHANGED <<state, triggered, err_flag, active_recognizer, recsLock,
                   recsPoisoned, stateLock, errLock, CALL_COUNT, clock>>
    /\ UNCHANGED <<inactive, cbVars, supVars>>
    /\ UNCHANGED auxVars

\* line 279: Recognizer::new returns None; unwrap panics with the guard held,
\* which poisons the mutex and ends the thread.
RotConstructFail ==
    /\ ProcessRunning
    /\ rotPc = "construct"
    /\ recsPoisoned' = TRUE
    /\ recsLock' = "none"
    /\ rotPc' = "panicked"
    /\ UNCHANGED <<state, triggered, err_flag, active_recognizer, recognizers,
                   stateLock, errLock, CALL_COUNT, clock>>
    /\ UNCHANGED <<inactive, cbVars, supVars>>
    /\ UNCHANGED auxVars

\* lines 282-286: the new handle is configured, the guard dropped
RotConfigure ==
    /\ ProcessRunning
    /\ rotPc = "configure"
    /\ recognizers' = [recognizers EXCEPT ![inactive].configured = TRUE]
    /\ recsLock' = "none"
    /\ rotPc' = "flip"
    /\ UNCHANGED <<state, triggered, err_flag, active_recognizer, recsPoisoned,
                   stateLock, errLock, CALL_COUNT, clock>>
    /\ UNCHANGED <<inactive, cbVars, supVars>>
    /\ UNCHANGED auxVars

\* line 288: *active_clone.lock().unwrap() = inactive
RotFlip ==
    /\ ProcessRunning
    /\ rotPc = "flip"
    /\ active_recognizer' = inactive
    /\ rotPc' = "sleep"
    /\ UNCHANGED <<state, triggered, err_flag, recognizers, recsLock,
                   recsPoisoned, stateLock, errLock, CALL_COUNT, clock>>
    /\ UNCHANGED <<inactive, cbVars, supVars>>
    /\ UNCHANGED auxVars

\* -------------------------------------------------------- supervisory loop
\* line 347: err_flag.lock().unwrap().take(); the guard lives to line 353
SupTakeErr ==
    /\ supPc = "top"
    /\ IF err_flag = "Some"
       THEN /\ err_flag' = "None"
            /\ errLock' = "sup"
            /\ supPc' = "err_clear_trig"
       ELSE /\ supPc' = "check_trig"
            /\ UNCHANGED <<err_flag, errLock>>
    /\ supEmitted' = FALSE
    /\ supLate' = (clock > CeilingMs)
    /\ UNCHANGED <<state, triggered, active_recognizer, recognizers, recsLock,
                   recsPoisoned, stateLock, CALL_COUNT, clock>>
    /\ UNCHANGED <<sup_active_idx, listening_printed, cbVars, rotVars>>
    /\ UNCHANGED auxVars

\* line 349: *triggered.lock().unwrap() = false
SupErrClearTrig ==
    /\ supPc = "err_clear_trig"
    /\ triggered' = FALSE
    /\ supPc' = "err_set_idle"
    /\ UNCHANGED <<state, err_flag, active_recognizer, recognizers, recsLock,
                   recsPoisoned, stateLock, errLock, CALL_COUNT, clock>>
    /\ UNCHANGED <<sup_active_idx, listening_printed, supEmitted, cbVars, rotVars>>
    /\ UNCHANGED <<supLate, auxVars>>

SupErrSetIdle_KeepsState ==
    /\ supPc = "err_set_idle"
    /\ listening_printed' = FALSE
    /\ errLock' = "none"
    /\ supPc' = "top"
    /\ UNCHANGED <<state, triggered, err_flag, active_recognizer, recognizers,
                   recsLock, recsPoisoned, stateLock, CALL_COUNT, clock>>
    /\ UNCHANGED <<sup_active_idx, supEmitted, cbVars, rotVars>>
    /\ UNCHANGED <<supLate, auxVars>>

\* lines 350-352
SupErrSetIdle ==
    /\ supPc = "err_set_idle"
    /\ state' = Idle
    /\ listening_printed' = FALSE
    /\ errLock' = "none"
    /\ supPc' = "top"
    /\ UNCHANGED <<triggered, err_flag, active_recognizer, recognizers, recsLock,
                   recsPoisoned, stateLock, CALL_COUNT, clock>>
    /\ UNCHANGED <<sup_active_idx, supEmitted, cbVars, rotVars>>
    /\ UNCHANGED <<supLate, auxVars>>

\* lines 355-356: the flag is read; if set, [PROCESSED] is printed
SupCheckTrig ==
    /\ supPc = "check_trig"
    /\ IF triggered
       THEN /\ supEmitted' = TRUE
            /\ supPc' = "clear_trig"
       ELSE /\ supPc' = "check_state"
            /\ UNCHANGED supEmitted
    /\ UNCHANGED <<sharedVars, cbVars, rotVars>>
    /\ UNCHANGED <<sup_active_idx, listening_printed>>
    /\ UNCHANGED <<supLate, auxVars>>

\* line 357: *triggered.lock().unwrap() = false
SupClearTrig ==
    /\ supPc = "clear_trig"
    /\ triggered' = FALSE
    /\ supPc' = "drain_set_idle"
    /\ UNCHANGED <<state, err_flag, active_recognizer, recognizers, recsLock,
                   recsPoisoned, stateLock, errLock, CALL_COUNT, clock>>
    /\ UNCHANGED <<sup_active_idx, listening_printed, supEmitted, cbVars, rotVars>>
    /\ UNCHANGED <<supLate, auxVars>>

\* lines 358-361
SupDrainSetIdle ==
    /\ supPc = "drain_set_idle"
    /\ state' = Idle
    /\ listening_printed' = FALSE
    /\ supPc' = "top"
    /\ UNCHANGED <<triggered, err_flag, active_recognizer, recognizers, recsLock,
                   recsPoisoned, stateLock, errLock, CALL_COUNT, clock>>
    /\ UNCHANGED <<sup_active_idx, supEmitted, cbVars, rotVars>>
    /\ UNCHANGED <<supLate, auxVars>>

\* lines 364-375 and 385-388: the state guard is taken and the command window
\* examined; on a timeout the state is forced to Idle and the guard kept.
SupCheckState ==
    /\ supPc = "check_state"
    /\ stateLock = "none"
    /\ IF state.tag = "WakeDetected"
       THEN LET elapsed == clock - state.time
            IN IF elapsed > GraceMs /\ elapsed > CommandTimeoutMs
               THEN /\ state' = Idle
                    /\ listening_printed' = FALSE
                    /\ stateLock' = "sup"
                    /\ supPc' = "timeout_read_active"
               ELSE /\ listening_printed' =
                           (listening_printed \/ elapsed > GraceMs)
                    /\ supPc' = "sleep"
                    /\ UNCHANGED <<state, stateLock>>
       ELSE /\ listening_printed' = FALSE
            /\ supPc' = "sleep"
            /\ UNCHANGED <<state, stateLock>>
    /\ UNCHANGED <<triggered, err_flag, active_recognizer, recognizers, recsLock,
                   recsPoisoned, errLock, CALL_COUNT, clock>>
    /\ UNCHANGED <<sup_active_idx, supEmitted, cbVars, rotVars>>
    /\ UNCHANGED <<supLate, auxVars>>

\* line 378: let active_idx = *active_recognizer.lock().unwrap()
SupTimeoutReadActive ==
    /\ supPc = "timeout_read_active"
    /\ sup_active_idx' = active_recognizer
    /\ supPc' = "timeout_lock_recs"
    /\ UNCHANGED <<sharedVars, cbVars, rotVars>>
    /\ UNCHANGED <<listening_printed, supEmitted>>
    /\ UNCHANGED <<supLate, auxVars>>

\* lines 379-382: recognizers.lock().unwrap(), reset, continue; a poisoned
\* mutex makes unwrap panic on the main thread.
SupTimeoutReset ==
    /\ supPc = "timeout_lock_recs"
    /\ recsLock = "none"
    /\ IF recsPoisoned
       THEN /\ supPc' = "panicked"
            /\ UNCHANGED recognizers
       ELSE /\ supPc' = "top"
            /\ recognizers' = ResetHandle(recognizers, sup_active_idx)
    /\ stateLock' = "none"
    /\ UNCHANGED <<state, triggered, err_flag, active_recognizer, recsLock,
                   recsPoisoned, errLock, CALL_COUNT, clock>>
    /\ UNCHANGED <<sup_active_idx, listening_printed, supEmitted, cbVars, rotVars>>
    /\ UNCHANGED <<supLate, auxVars>>

\* lines 391-394: the poll sleep, then the safety ceiling
SupSleep ==
    /\ supPc = "sleep"
    /\ supPc' = IF clock > CeilingMs THEN "exited" ELSE "top"
    /\ UNCHANGED <<sharedVars, cbVars, rotVars>>
    /\ UNCHANGED <<sup_active_idx, listening_printed, supEmitted>>
    /\ UNCHANGED <<supLate, auxVars>>

\* ------------------------------------------------------------ specification
Callback ==
    \/ CbReadActive \/ CbLockRecs
    \/ CbDecodeRunning \/ CbDecodeError \/ CbDecodeFinalized \/ CbDecodeNoText
    \/ CbReadState \/ CbSetWake \/ CbSetTrigFast \/ CbSetTrigCmd \/ CbSetIdle
    \/ CbReset

Rotation ==
    \/ RotReadActive \/ RotLockRecs \/ RotConstructOk \/ RotConstructFail
    \/ RotConfigure \/ RotFlip

Supervisor ==
    \/ SupTakeErr \/ SupErrClearTrig \/ SupErrSetIdle
    \/ SupCheckTrig \/ SupClearTrig \/ SupDrainSetIdle
    \/ SupCheckState \/ SupTimeoutReadActive \/ SupTimeoutReset \/ SupSleep

Next == Tick \/ Callback \/ ErrFn \/ Rotation \/ Supervisor

Spec == Init /\ [][Next]_vars

\* The program a day after start-up, where the windows of clock and
\* CALL_COUNT straddle the safety ceiling (line 392) and the counter's period
\* (line 596): the last utterance was finalized and its handle reset, no
\* command is awaited, and the swap thread, having flipped ActiveIndex every
\* ten minutes, is asleep with slot 0 active again.
InitLate ==
    /\ state = Idle
    /\ triggered = FALSE
    /\ err_flag = "None"
    /\ active_recognizer = 0
    /\ recognizers = [i \in 0..1 |-> LiveHandle]
    /\ recsLock = "none"
    /\ recsPoisoned = FALSE
    /\ stateLock = "none"
    /\ errLock = "none"
    /\ CALL_COUNT = ResetPeriod - MaxCalls
    /\ clock = CeilingMs
    /\ cbPc = "idle"
    /\ cb_active_idx = 0
    /\ cbText = <<>>
    /\ current_state = Idle
    /\ cbCommand = <<>>
    /\ cbNow = 0
    /\ cbTrigSets = 0
    /\ cbStateWrites = <<>>
    /\ rotPc = "sleep"
    /\ inactive = 1
    /\ supPc = "top"
    /\ sup_active_idx = 0
    /\ listening_printed = FALSE
    /\ supEmitted = FALSE
    /\ supLate = FALSE
    /\ horizon = [clock |-> CeilingMs + MaxTicks * TickMs, calls |-> ResetPeriod]
    /\ dmPc = "off"
    /\ dmFormat = "i16"
    /\ dmChannels = 1
    /\ dmData = <<>>
    /\ dmOut = <<>>

SpecLate == InitLate /\ [][Next]_vars

\* ----------------------------------------------------------------- downmix
MaxChannels == 3
MaxSamples == 4

I16Min == -32768
I16Max == 32767
U16Max == 65535
U16Bias == 32768
I32Min == (-2147483647) - 1
I32Max == 2147483647
\* config.channels is a 16-bit unsigned count
MaxConfigChannels == 65535

FloorDiv(a, b) == a \div b

\* i32 `/` with a positive divisor: the quotient is truncated toward zero
TruncDiv(a, b) == IF a >= 0 THEN a \div b ELSE -((-a) \div b)

\* i32::clamp
clamp(x, lo, hi) == IF x < lo THEN lo ELSE IF x > hi THEN hi ELSE x

\* `as i16` on an i32: the low 16 bits, read as two's complement
as_i16(x) == ((x - I16Min) % (U16Max + 1)) + I16Min

\* slice::chunks_exact: the whole frames of data, the remainder dropped
chunks_exact(data, channels) ==
    [i \in 1..(Len(data) \div channels) |->
        SubSeq(data, (i - 1) * channels + 1, i * channels)]

\* The values acc takes while `acc += f(s)` runs over the first k samples.
RECURSIVE acc_after(_, _, _)
acc_after(frame, k, bias) ==
    IF k = 0 THEN 0 ELSE acc_after(frame, k - 1, bias) + (frame[k] - bias)

\* build_input_stream_i16's data_fn, up to pcm_mono
downmix_i16(data, channels) ==
    IF channels <= 1
    THEN data
    ELSE LET frames == chunks_exact(data, channels)
         IN [i \in 1..Len(frames) |->
                as_i16(clamp(TruncDiv(acc_after(frames[i], channels, 0), channels),
                             I16Min, I16Max))]

\* build_input_stream_u16's data_fn, up to pcm_mono
downmix_u16(data, channels) ==
    IF channels <= 1
    THEN [i \in 1..Len(data) |-> as_i16(data[i] - U16Bias)]
    ELSE LET frames == chunks_exact(data, channels)
         IN [i \in 1..Len(frames) |->
                as_i16(clamp(TruncDiv(acc_after(frames[i], channels, U16Bias),
                                      channels),
                             I16Min, I16Max))]

\* An f32 is a quarter-integer q/4 (kind "num") or one of the special values.
\* With these samples and at most four channels the sum is exact, and the
\* rounding of acc / channels and of the product moves the result by less
\* than 1/100 while a non-integer result is at least 1/16 from an integer, so
\* the truncated value is that of the exact quotient.
F32Den == 4
Num(q) == [kind |-> "num", q |-> q]
NaN == [kind |-> "nan", q |-> 0]
PosInf == [kind |-> "inf", q |-> 1]
NegInf == [kind |-> "inf", q |-> -1]

\* f32 `+`
f32_add(x, y) ==
    IF x.kind = "nan" \/ y.kind = "nan" THEN NaN
    ELSE IF x.kind = "inf" /\ y.kind = "inf"
         THEN IF x.q = y.q THEN x ELSE NaN
    ELSE IF x.kind = "inf" THEN x
    ELSE IF y.kind = "inf" THEN y
    ELSE Num(x.q + y.q)

RECURSIVE f32_acc(_, _)
f32_acc(frame, k) ==
    IF k = 0 THEN Num(0) ELSE f32_add(f32_acc(frame, k - 1), frame[k])

f32_to_i16_unclamped(x, channels) ==
    IF x.kind = "nan" THEN 0
    ELSE IF x.kind = "inf" THEN x.q * I16Max
    ELSE TruncDiv(x.q * I16Max, F32Den * channels)

\* (x / channels as f32 * i16::MAX as f32).clamp(i16::MIN as f32,
\* i16::MAX as f32) as i16: NaN stays NaN through the clamp and casts to 0,
\* the infinities are clamped, a number is clamped and truncated toward zero.
f32_to_i16(x, channels) ==
    IF x.kind = "nan" THEN 0
    ELSE IF x.kind = "inf" THEN (IF x.q > 0 THEN I16Max ELSE I16Min)
    ELSE LET n == x.q * I16Max
             d == F32Den * channels
         IN IF n >= I16Max * d THEN I16Max
            ELSE IF n <= I16Min * d THEN I16Min
            ELSE TruncDiv(n, d)

\* build_input_stream_f32's data_fn, up to pcm_mono
downmix_f32(data, channels) ==
    IF channels <= 1
    THEN [i \in 1..Len(data) |-> f32_to_i16(data[i], 1)]
    ELSE LET frames == chunks_exact(data, channels)
         IN [i \in 1..Len(frames) |->
                f32_to_i16(f32_acc(frames[i], channels), channels)]

I16Samples == {I16Min, -3, -1, 0, 2, I16Max}
U16Samples == {0, 1, U16Bias - 1, U16Bias, U16Bias + 2, U16Max}
F32Samples == {Num(-8), Num(-4), Num(-1), Num(0), Num(2), Num(4),
               NaN, PosInf, NegInf}

SamplesOf(format) ==
    CASE format = "i16" -> I16Samples
      [] format = "u16" -> U16Samples
      [] format = "f32" -> F32Samples

Buffers(format) ==
    UNION {[1..n -> SamplesOf(format)] : n \in 0..MaxSamples}

\* The stream is built for one of the three formats (lines 306-341) and the
\* device hands data_fn a buffer.
InitDownmix ==
    /\ state = Idle
    /\ triggered = FALSE
    /\ err_flag = "None"
    /\ active_recognizer = 0
    /\ recognizers = [i \in 0..1 |-> LiveHandle]
    /\ recsLock = "none"
    /\ recsPoisoned = FALSE
    /\ stateLock = "none"
    /\ errLock = "none"
    /\ CALL_COUNT = 0
    /\ clock = 0
    /\ cbPc = "idle"
    /\ cb_active_idx = 0
    /\ cbText = <<>>
    /\ current_state = Idle
    /\ cbCommand = <<>>
    /\ cbNow = 0
    /\ cbTrigSets = 0
    /\ cbStateWrites = <<>>
    /\ rotPc = "sleep"
    /\ inactive = 0
    /\ supPc = "top"
    /\ sup_active_idx = 0
    /\ listening_printed = FALSE
    /\ supEmitted = FALSE
    /\ supLate = FALSE
    /\ horizon = [clock |-> MaxTicks * TickMs, calls |-> MaxCalls]
    /\ dmPc = "input"
    /\ dmFormat \in {"i16", "u16", "f32"}
    /\ dmChannels \in 1..MaxChannels
    /\ dmData \in Buffers(dmFormat)
    /\ dmOut = <<>>

DataFnI16 ==
    /\ dmPc = "input"
    /\ dmFormat = "i16"
    /\ dmOut' = downmix_i16(dmData, dmChannels)
    /\ dmPc' = "done"
    /\ UNCHANGED <<dmFormat, dmChannels, dmData, horizon>>
    /\ UNCHANGED <<sharedVars, cbVars, rotVars, supVars>>

DataFnU16 ==
    /\ dmPc = "input"
    /\ dmFormat = "u16"
    /\ dmOut' = downmix_u16(dmData, dmChannels)
    /\ dmPc' = "done"
    /\ UNCHANGED <<dmFormat, dmChannels, dmData, horizon>>
    /\ UNCHANGED <<sharedVars, cbVars, rotVars, supVars>>

DataFnF32 ==
    /\ dmPc = "input"
    /\ dmFormat = "f32"
    /\ dmOut' = downmix_f32(dmData, dmChannels)
    /\ dmPc' = "done"
    /\ UNCHANGED <<dmFormat, dmChannels, dmData, horizon>>
    /\ UNCHANGED <<sharedVars, cbVars, rotVars, supVars>>

NextDownmix == DataFnI16 \/ DataFnU16 \/ DataFnF32

SpecDownmix == InitDownmix /\ [][NextDownmix]_vars


\* ------------------------------------------------------------------ claims
\* The transcripts that, trimmed and lower-cased, are exactly a wake phrase.
ExactWake == {T_Wake, T_WakePadded}

\* The transcripts of the form "<wake phrase> <non-empty text>".
WakeThenText == {T_WakeOn, T_WakeOnLoose}

\* The transcripts whose trimmed text is not empty.
NonBlank == Transcripts \ {T_Blank, T_Empty}

\* The callback has cloned the state and not yet returned.
PostRead == {"set_wake", "set_trig_fast", "set_trig_cmd", "set_idle", "reset"}

\* C1: a callback that reads Idle for a transcript that is exactly a wake
\* phrase (trimmed, case-insensitively) goes on to write WakeDetected carrying
\* the time it read with Instant::now() for that write, a time not after the
\* write, and sets TriggerSignal nowhere on the way.
C1_ExactWakeCarriesTimeRead ==
    [][ /\ (/\ cbPc = "read_state" /\ cbPc' # "read_state"
            /\ state.tag = "Idle" /\ cbText \in ExactWake)
           => (cbPc' = "set_wake" /\ cbNow' = clock)
        /\ (cbPc = "set_wake" /\ cbPc' # "set_wake")
           => /\ cbPc' = "reset"
              /\ state' = WakeDetected(cbNow)
              /\ cbNow <= clock
              /\ triggered' = triggered
              /\ cbTrigSets' = 0 ]_vars

\* A callback read Idle for a padded, mixed-case wake phrase at 1000 ms and
\* has written WakeDetected with that time.
C1_Witness ==
    /\ cbPc = "reset"
    /\ current_state.tag = "Idle"
    /\ cbText = T_WakePadded
    /\ cbStateWrites = <<WakeDetected(TickMs)>>
    /\ state = WakeDetected(TickMs)
    /\ ~triggered

\* C2: while a callback that read Idle for "<wake phrase> <text>" is at work,
\* ListeningState is Idle and the callback writes no state; when it is done
\* it has set TriggerSignal exactly once.
C2_FastPathFiresOnceAndStaysIdle ==
    (cbPc \in PostRead /\ current_state.tag = "Idle" /\ cbText \in WakeThenText)
    => /\ cbPc \in {"set_trig_fast", "reset"}
       /\ state.tag = "Idle"
       /\ cbStateWrites = <<>>
       /\ cbTrigSets = (IF cbPc = "reset" THEN 1 ELSE 0)

C2_Witness ==
    /\ cbPc = "reset"
    /\ current_state.tag = "Idle"
    /\ cbText = T_WakeOnLoose
    /\ cbTrigSets = 1
    /\ triggered
    /\ state = Idle

\* C3: on the single-utterance path the command emitted with the trigger is
\* the trimmed text after the wake phrase, without the wake phrase.
C3_FastPathCommandIsTrailingText ==
    (/\ cbPc = "reset" /\ current_state.tag = "Idle"
     /\ cbText \in WakeThenText /\ cbTrigSets = 1)
    => cbCommand = T_On

\* C4: a callback that read WakeDetected for a transcript with non-empty
\* trimmed text sets TriggerSignal exactly once, with the trimmed text as the
\* command, and then writes Idle.
C4_CommandFiresOnceAndReturnsToIdle ==
    (/\ cbPc \in PostRead /\ current_state.tag = "WakeDetected"
     /\ cbText \in NonBlank)
    => /\ cbPc \in {"set_trig_cmd", "set_idle", "reset"}
       /\ cbTrigSets = (IF cbPc = "set_trig_cmd" THEN 0 ELSE 1)
       /\ cbPc # "set_trig_cmd" => cbCommand = trim(cbText)
       /\ cbStateWrites = (IF cbPc = "reset" THEN <<Idle>> ELSE <<>>)
       /\ cbPc = "reset" => state = Idle

C4_Witness ==
    /\ cbPc = "reset"
    /\ current_state.tag = "WakeDetected"
    /\ cbText = T_WakePadded
    /\ cbCommand = <<"H","e","y"," ","I","r","i","s">>
    /\ cbTrigSets = 1
    /\ triggered
    /\ state = Idle

\* C5: the step that completes the supervisory loop's timeout branch leaves
\* ListeningState Idle, resets the handle ActiveIndex designates and leaves
\* TriggerSignal alone.
C5_TimeoutResetsActiveHandle ==
    [][ (supPc = "timeout_lock_recs" /\ supPc' = "top")
        => /\ state' = Idle
           /\ triggered' = triggered
           /\ recognizers' = ResetHandle(recognizers, active_recognizer) ]_vars

\* C6: the capture callback sets TriggerSignal only while it is clear.
C6_TriggerSetOnlyWhenClear ==
    [][ (cbTrigSets' > cbTrigSets) => ~triggered ]_vars

\* C7: TriggerSignal is cleared only by a loop iteration that has emitted the
\* action event.
C7_ClearedOnlyAfterActionEvent ==
    [][ (triggered /\ ~triggered') => supEmitted ]_vars

\* C8: a callback that has read ActiveIndex gets to push its chunk, and the
\* slot it pushes into holds a constructed and configured handle that is not
\* being replaced.
C8_EveryChunkReachesALiveHandle ==
    /\ cbPc # "panicked"
    /\ cbPc = "decode"
       => /\ recsLock = "cb"
          /\ recognizers[cb_active_idx].configured

\* C9: a failed construction leaves the swap thread running and the pool
\* acquirable.
C9_ConstructionFailureIsSkipped ==
    /\ rotPc # "panicked"
    /\ ~recsPoisoned

\* C10: the capture callback and the supervisory loop never wait on each
\* other's locks.
C10_NoLockCycle ==
    ~ (/\ cbPc \in {"read_state", "set_wake", "set_idle"}
       /\ recsLock = "cb"
       /\ stateLock = "sup"
       /\ supPc = "timeout_lock_recs")


\* C11: the supervisory loop's error drain empties ErrorSignal and keeps it
\* empty until it is done, ends with ListeningState Idle and the loop back at
\* its top, and stops neither the loop, the callback nor the swap thread.
C11_ErrorDrainResetsAndContinues ==
    [][ /\ (supPc = "top" /\ supPc' # "top" /\ err_flag = "Some")
           => (supPc' = "err_clear_trig" /\ err_flag' = "None")
        /\ (supPc \in {"err_clear_trig", "err_set_idle"})
           => err_flag' = "None"
        /\ (supPc = "err_set_idle" /\ supPc' # "err_set_idle")
           => /\ supPc' = "top"
              /\ state' = Idle
              /\ cbPc' = cbPc
              /\ rotPc' = rotPc
              /\ ProcessRunning' ]_vars

C11_Witness ==
    /\ supPc = "err_set_idle"
    /\ err_flag = "None"
    /\ state.tag = "WakeDetected"
    /\ cbPc = "idle"

\* C12: a decode that returns Error (the callback leaves the decode without
\* counting a Running result) changes neither ListeningState, TriggerSignal,
\* ActiveIndex nor either slot, reads no transcript, and leaves the pool
\* released for the next chunk.
C12_DecodeErrorDropsOnlyThePush ==
    [][ (cbPc = "decode" /\ cbPc' = "idle" /\ CALL_COUNT' = CALL_COUNT)
        => /\ state' = state
           /\ triggered' = triggered
           /\ active_recognizer' = active_recognizer
           /\ recognizers' = recognizers
           /\ recsPoisoned' = recsPoisoned
           /\ recsLock' = "none"
           /\ cbText' = <<>>
           /\ cbTrigSets' = 0 ]_vars

\* The decoder is about to answer a push into a handle that holds partial
\* audio, while a command is awaited.
C12_Witness ==
    /\ cbPc = "decode"
    /\ recognizers[cb_active_idx].fed
    /\ state.tag = "WakeDetected"


\* C13: an iteration of the supervisory loop that begins after the safety
\* ceiling has passed ends the loop: it never comes back to the top of the
\* loop, whichever branch it takes.
C13_LateIterationEndsTheLoop ==
    [][ (supLate /\ supPc # "top") => supPc' # "top" ]_vars


\* C16: the swap thread never constructs a handle while it holds the
\* recognizers lock, the lock the callback takes for every decode.
C16_ConstructionOutsideTheLock ==
    rotPc = "construct" => recsLock # "rot"

\* The swap thread's positions between its read of ActiveIndex and its flip.
RotBusy == {"lock_recs", "construct", "configure", "flip"}

\* C17: ActiveIndex is 0 or 1; only the swap thread's flip writes it; the slot
\* a rotation replaces is the one ActiveIndex does not designate when it is
\* replaced; and the flip comes when the new handle is configured and the
\* swap thread has released the recognizers lock.
C17_RotationReplacesInactiveThenFlips ==
    /\ [](/\ active_recognizer \in {0, 1}
          /\ rotPc \in RotBusy => inactive = 1 - active_recognizer
          /\ rotPc = "flip" => (recsLock # "rot" /\ recognizers[inactive].configured))
    /\ [][ /\ active_recognizer' # active_recognizer
              => (rotPc = "flip" /\ rotPc' = "sleep"
                  /\ active_recognizer' = inactive)
           /\ (rotPc = "construct" /\ rotPc' = "configure")
              => /\ inactive # active_recognizer
                 /\ recognizers'[inactive] = FreshHandle
                 /\ recognizers'[active_recognizer] = recognizers[active_recognizer]
         ]_vars

\* A second rotation has replaced slot 0 and is about to flip back to it.
C17_Witness ==
    /\ rotPc = "flip"
    /\ inactive = 0
    /\ active_recognizer = 1

\* C18: the slot a chunk is pushed into is the one ActiveIndex designates at
\* the push, and the slot the supervisory loop resets on a timeout is the one
\* ActiveIndex designates at the reset.
C18_TargetIsActiveAtTheOperation ==
    [][ /\ (cbPc = "decode" /\ cbPc' # "decode")
           => cb_active_idx = active_recognizer
        /\ (supPc = "timeout_lock_recs" /\ supPc' = "top")
           => sup_active_idx = active_recognizer ]_vars

\* C19: a decode that returns Running (the step that counts a call) leaves the
\* pushed audio in the handle: it never resets it.
C19_RunningNeverResets ==
    [][ (cbPc = "decode" /\ CALL_COUNT' # CALL_COUNT)
        => recognizers'[cb_active_idx].fed ]_vars

\* The callback's positions after a finalized decode, up to its reset.
PostFinal == {"read_state", "set_wake", "set_trig_fast", "set_trig_cmd",
              "set_idle", "reset"}

\* C20: a handle that holds a finalized utterance is the one the callback
\* pushed into, the callback still holds the recognizers lock and is on its
\* way to the reset, so that no chunk is pushed into it; and the step that
\* ends such a callback leaves the handle reset.
C20_FinalizedHandleIsResetBeforeNextPush ==
    /\ [](\A i \in 0..1 :
            recognizers[i].finalized
            => (cbPc \in PostFinal /\ recsLock = "cb" /\ cb_active_idx = i))
    /\ [][ /\ (cbPc = "decode" /\ cbPc' # "decode")
              => ~recognizers[cb_active_idx].finalized
           /\ (cbPc \in PostFinal /\ cbPc' = "idle")
              => /\ ~recognizers'[cb_active_idx].fed
                 /\ ~recognizers'[cb_active_idx].finalized ]_vars

\* An utterance without a wake phrase was finalized in Idle; its handle is
\* about to be reset.
C20_Witness ==
    /\ cbPc = "reset"
    /\ recognizers[cb_active_idx].finalized
    /\ cbText = T_On
    /\ current_state.tag = "Idle"


\* The per-format conversion of one integer sample to signed 16-bit.
Converted(format, v) == IF format = "u16" THEN v - U16Bias ELSE v

\* The sum of the first k raw samples of a frame.
RECURSIVE RawSum(_, _)
RawSum(frame, k) == IF k = 0 THEN 0 ELSE RawSum(frame, k - 1) + frame[k]

\* q is n / c truncated toward zero (c > 0).
IsTruncQuotient(q, n, c) ==
    /\ n >= 0 => (q * c <= n /\ n < (q + 1) * c)
    /\ n <= 0 => (q * c >= n /\ n > (q - 1) * c)

IntegerDownmixDone ==
    dmPc = "done" /\ dmFormat \in {"i16", "u16"} /\ dmChannels > 1

\* C14 as stated: for the integer encodings and C > 1 the output has
\* floor(N/C) samples and each is the truncated quotient of the frame's raw
\* sum by C, converted per format afterwards.
C14_RawSumTruncatedThenConverted ==
    IntegerDownmixDone
    => /\ Len(dmOut) = Len(dmData) \div dmChannels
       /\ \A i \in 1..Len(dmOut) :
            dmOut[i] =
                Converted(dmFormat,
                          TruncDiv(RawSum(chunks_exact(dmData, dmChannels)[i],
                                          dmChannels),
                                   dmChannels))

\* C14 amended: for the integer encodings and C > 1 the output has floor(N/C)
\* samples and each is the sum of the frame's C converted channel values
\* (identity for signed-16, raw - 32768 for unsigned-16) divided by C with
\* truncation toward zero.
C14_ConvertedSumTruncated ==
    IntegerDownmixDone
    => /\ Len(dmOut) = Len(dmData) \div dmChannels
       /\ \A i \in 1..Len(dmOut) :
            LET frame == chunks_exact(dmData, dmChannels)[i]
                n == RawSum(frame, dmChannels)
                     - (IF dmFormat = "u16" THEN dmChannels * U16Bias ELSE 0)
            IN IsTruncQuotient(dmOut[i], n, dmChannels)

\* An unsigned stereo buffer of three samples: one frame, whose converted sum
\* -65535 is negative and odd, and a dropped remainder.
C14_Witness ==
    /\ dmPc = "done"
    /\ dmFormat = "u16"
    /\ dmChannels = 2
    /\ dmData = <<0, 1, U16Max>>
    /\ dmOut = <<-32767>>

\* C15: every sample the downmix produces lies in [-32768, 32767], for each
\* format and channel count; for the integer encodings the accumulator stays
\* within i32 after every addition, and would for any 16-bit channel count.
C15_OutputInI16AndAccInI32 ==
    /\ dmPc = "done"
       => /\ \A i \in 1..Len(dmOut) : dmOut[i] \in I16Min..I16Max
          /\ (dmFormat \in {"i16", "u16"} /\ dmChannels > 1)
             => \A i \in 1..Len(dmOut) : \A k \in 0..dmChannels :
                   acc_after(chunks_exact(dmData, dmChannels)[i], k,
                             IF dmFormat = "u16" THEN U16Bias ELSE 0)
                       \in I32Min..I32Max
    /\ MaxConfigChannels * I16Max <= I32Max
    /\ MaxConfigChannels * I16Min >= I32Min
    /\ MaxConfigChannels * (U16Max - U16Bias) <= I32Max
    /\ MaxConfigChannels * (0 - U16Bias) >= I32Min

\* Two float frames: the first averages -2.0, which scales to -65534 and is
\* clamped; the second averages 0.125, which scales to 4095.875.
C15_Witness ==
    /\ dmPc = "done"
    /\ dmFormat = "f32"
    /\ dmChannels = 2
    /\ dmData = <<Num(-8), Num(-8), Num(2), Num(-1)>>
    /\ dmOut = <<I16Min, 4095>>


\* The transcripts that are empty or only whitespace.
BlankTexts == {T_Blank, T_Empty}

\* C21: a callback that reads WakeDetected for an empty or whitespace-only
\* transcript goes straight to the handle reset, and from its read to its
\* return none of its steps changes ListeningState (tag or timestamp) or
\* TriggerSignal: it writes no state and sets no trigger.
C21_BlankInWakeDetectedIsNoOp ==
    [][ /\ (/\ cbPc = "read_state" /\ cbPc' # "read_state"
            /\ state.tag = "WakeDetected" /\ cbText \in BlankTexts)
           => (cbPc' = "reset" /\ state' = state /\ triggered' = triggered)
        /\ (/\ cbPc \in PostRead /\ cbPc' # cbPc
            /\ current_state.tag = "WakeDetected" /\ cbText \in BlankTexts)
           => /\ cbPc = "reset" /\ cbPc' = "idle"
              /\ state' = state
              /\ triggered' = triggered
              /\ cbStateWrites = <<>>
              /\ cbTrigSets = 0 ]_vars

\* A whitespace-only utterance was finalized while a command was awaited; the
\* callback is about to return and the wake detection stands as it was read.
C21_Witness ==
    /\ cbPc = "reset"
    /\ cbText = T_Blank
    /\ current_state.tag = "WakeDetected"
    /\ state = current_state
    /\ ~triggered

\* C22: the callback sets TriggerSignal for the command of a wake detection
\* only within the command timeout of the detection's timestamp.
C22_CommandOnlyWithinWindow ==
    [][ (cbPc = "set_trig_cmd" /\ cbPc' # "set_trig_cmd")
        => clock - current_state.time <= CommandTimeoutMs ]_vars

\* The lower-cased text has a wake phrase with non-blank text after it.
HasWakeThenTrailing(text) ==
    LET t == to_lowercase(text)
    IN \E p \in 0..(Len(t) - Len(HeyIris)) :
          /\ SubSeq(t, p + 1, p + Len(HeyIris)) = HeyIris
          /\ \E j \in (p + Len(HeyIris) + 1)..Len(t) : ~IsWhitespace(t[j])

\* C23: a callback that read Idle sets TriggerSignal only for a transcript
\* in which a wake phrase is followed by non-empty trailing text.
C23_IdleTriggerNeedsTrailingText ==
    [][ (/\ cbPc \in PostRead /\ current_state.tag = "Idle"
         /\ triggered' # triggered /\ triggered')
        => HasWakeThenTrailing(cbText) ]_vars

\* C24: whenever the callback sets TriggerSignal or writes ListeningState,
\* the ListeningState it read for its decision is still the current one.
C24_DecisionStateIsCurrent ==
    [][ (cbPc \in {"set_wake", "set_trig_fast", "set_trig_cmd", "set_idle"}
         /\ cbPc' # cbPc)
        => state = current_state ]_vars

\* C25: ListeningState leaves WakeDetected only through a command transcript
\* (the callback's Idle write, or the drain of that command's trigger while
\* the Idle write is pending), by the supervisory loop's command timeout or
\* by its error drain; the drain of any other trigger leaves a wake detection
\* as it is.
C25_WakeDetectedLeftOnlyByCommandTimeoutOrError ==
    [][ (state.tag = "WakeDetected" /\ state' # state)
        => \/ cbPc = "set_idle" /\ cbPc' = "reset"
           \/ cbPc = "set_idle" /\ supPc = "drain_set_idle" /\ supPc' = "top"
           \/ supPc = "check_state" /\ supPc' = "timeout_read_active"
           \/ supPc = "err_set_idle" /\ supPc' = "top" ]_vars

====
